---- MODULE Spec2Model ----
(***************************************************************************)
(* GrapheryExecutor: the change Recorder (utils/recorder.py), the value    *)
(* classifier inside it, the restricted builtins / import table and the    *)
(* context-layer life cycle of the Controller (utils/controller.py).       *)
(*                                                                         *)
(* Each component has its own specification over the shared variables:     *)
(*   SpecRecorder   - Recorder operations                                  *)
(*   SpecColor      - Recorder.register_variable only (palette overflow)   *)
(*   SpecClassify   - Recorder.process_variable_state over object graphs   *)
(*   SpecSandbox    - Controller._collect_builtins / restricted import     *)
(*   SpecController - Controller.init / main / context layers              *)
(*   SpecInput      - GraphController's input feed                         *)
(*   SpecIsolation  - two GraphController instances in one process         *)
(*   SpecTracer     - Tracer.trace (seeker/sight.py) writing to a Recorder *)
(*   SpecRepr       - process_variable_state over values whose repr,      *)
(*                    iteration or graph lookup fails                      *)
(*   SpecTruncate   - seeker/utils.py truncate                             *)
(*   SpecGraphology - graphology_helper export / import round trip         *)
(*   SpecServer     - server_utils application (WSGI entry point)          *)
(*   SpecThreads    - Tracer.__enter__ / __exit__ on several threads       *)
(*   SpecFrames     - Tracer.trace over calls, returns and generators      *)
(*   SpecScope      - Tracer.trace's scope check over call depths          *)
(*   SpecTypeTag    - Recorder._search_type_string                         *)
(*   SpecMemLimit   - the Controller's memory option and RLIMIT_AS         *)
(*   SpecGenerator  - Tracer._wrap_function's generator_wrapper            *)
(*   SpecExecute    - ExecutorWSGIServer.execute and its subprocess        *)
(*   SpecExecuteFair - SpecExecute with weak fairness on its steps         *)
(* A specification leaves the variables of the other components at their   *)
(* idle values.                                                            *)
(***************************************************************************)
EXTENDS Integers, Sequences, FiniteSets, TLC

VARIABLES
    \* ---- Recorder (recorder.py:162-171)
    color_mapping,   \* Recorder._color_mapping: key string -> color string
    changes,         \* Recorder._changes: sequence of records
    final_changes,   \* Recorder._final_changes: None or Some(sequence)
    stdout_buf,      \* content of the StringIO Recorder._stdout
    stdout_cache,    \* Recorder._stdout_cache
    returned,        \* value returned by the last read of final_change_list
    lastOp,          \* name of the last Recorder operation performed
    nOps,            \* number of Recorder operations performed so far
    \* ---- classifier
    heap,            \* the object graph the classified values live in
    classified,      \* result of the last process_variable_state call
    \* ---- sandbox tables
    is_local,        \* Controller._is_local (the trusted flag)
    interp_builtins, \* names bound in the interpreter's __builtins__
    user_builtins,   \* Controller._user_globals["__builtins__"]
    modules,         \* module objects: attributes and package of each
    custom_ns,       \* Controller._custom_ns: alias -> module
    importLog,       \* outcome of the last import performed by user code
    callLog,         \* outcome of the last builtin call made by user code
    \* ---- controller life cycle
    ctl,             \* record of the Controller's control state
    \* ---- GraphController: the input feed (controller.py:881, 896-912)
    input_list,      \* GraphController._input_list
    input_given,     \* the INPUT_LIST option the controller was created with
    input_calls,     \* number of calls of input() made by the user code
    ctl_stdout,      \* content of the StringIO Controller._stdout
    inputLog,        \* prompt and outcome of the last call of input()
    \* ---- GraphController instances of one process (controller.py:948-997)
    tracer_cls,      \* class attributes of seeker's Tracer class
    nx_module,       \* attribute g_graph of the networkx module
    instances,       \* per controller: what init built, what its code saw
    \* ---- Tracer.trace (sight.py:383-559); SpecTracer follows one traced
    \* frame, SpecFrames and SpecScope keep these per activation
    frame_locals,    \* the watched bindings of the traced frame
    frame_to_local_reprs, \* Tracer.frame_to_local_reprs[frame]
    pending,         \* what the statement being executed has done so far
    traceLog,        \* the last event, and what Tracer.trace did with it
    \* ---- calls of the helper functions (seeker/utils.py,
    \* graphology_helper.py, server_utils)
    fn_input,        \* the arguments of the call
    fn_output,       \* what the call returned or raised
    \* ---- Tracer.__enter__ / __exit__ on several threads (sight.py:340-372)
    thr_hook,        \* per thread: the trace function sys.gettrace() returns
    thr_depth,       \* per thread: thread_global.depth, unset at first
    thr_stacks,      \* per tracer and thread: thread_local.original_trace_functions
    start_times,     \* per tracer: the frames Tracer.start_times has a key for
    thr_scopes,      \* per thread: the with blocks the thread is inside of
    thr_log          \* the last step: thread, operation, exception raised

recVars == <<color_mapping, changes, final_changes, stdout_buf, stdout_cache,
             returned, lastOp, nOps>>
clsVars == <<heap, classified>>
sbxVars == <<is_local, interp_builtins, user_builtins, modules, custom_ns,
             importLog, callLog>>
inpVars == <<input_list, input_given, input_calls, ctl_stdout, inputLog>>
isoVars == <<tracer_cls, nx_module, instances>>
trcVars == <<frame_locals, frame_to_local_reprs, pending, traceLog>>
gcVars == <<inpVars, isoVars, trcVars>>
ctlVars == <<ctl, gcVars>>
fnVars == <<fn_input, fn_output>>
thrVars == <<thr_hook, thr_depth, thr_stacks, start_times, thr_scopes, thr_log>>
libVars == <<fnVars, thrVars>>
vars == <<recVars, clsVars, sbxVars, ctlVars, libVars>>

\* ------------------------------------------------------------------------
\* Python's None and optional values
None == <<>>
Some(v) == <<v>>
IsNone(o) == o = <<>>
Get(o) == o[1]

Range(s) == {s[i] : i \in DOMAIN s}

\* Python dict: the model keeps a mapping as a function over its key set
DictSet(d, k, v) == [x \in (DOMAIN d) \cup {k} |-> IF x = k THEN v ELSE d[x]]
EmptyDict == [x \in {} |-> None]

\* ========================================================================
\* Identifiers and colors (recorder.py:44-86)
\* ========================================================================
\* IDENTIFIER_SEPARATOR, settings/variables.py:43 (zero-width space + "@")
ZWSP == "\\u200b"
IDENTIFIER_SEPARATOR == ZWSP \o "@"

identifier_to_string(identifier) ==
    identifier[1] \o IDENTIFIER_SEPARATOR \o identifier[2]

_DEFAULT_COLOR_PALETTE ==
    << "#828282", "#B15928", "#A6CEE3", "#1F78B4", "#B2DF8A", "#33A02C",
       "#FB9A99", "#E31A1C", "#FDBF6F", "#FF7F00", "#CAB2D6", "#6A3D9A",
       "#FFFF99" >>

_ACCESSED_IDENTIFIER_STRING == identifier_to_string(<<"global", "accessed var">>)
_INNER_IDENTIFIER_STRING == identifier_to_string(<<"", ZWSP \o "inner">>)

_DEFAULT_COLOR_MAPPING ==
    [k \in {_INNER_IDENTIFIER_STRING, _ACCESSED_IDENTIFIER_STRING} |->
        IF k = _INNER_IDENTIFIER_STRING THEN _DEFAULT_COLOR_PALETTE[1]
                                        ELSE _DEFAULT_COLOR_PALETTE[2]]

\* hex(n)[2:] : lower-case digits, no leading zeros
HexDigit(d) == SubSeq("0123456789abcdef", d + 1, d + 1)
RECURSIVE HexString(_)
HexString(n) == IF n < 16 THEN HexDigit(n)
                ELSE HexString(n \div 16) \o HexDigit(n % 16)

\* generate_hex for the random number n drawn by _color_r.randint(0, 0xFFFFFF)
generate_hex(n) == "#" \o HexString(n)

\* The draws of _color_r the model follows: 0x828282 formats to the first
\* palette entry, 0xb15928 to the second one in lower case, the others are
\* short and ordinary values.
RandomDraws == {8553090, 11622696, 0, 4095, 16777215, 1193046, 255}

\* ========================================================================
\* Object graph and classification (recorder.py:96-136, 285-414)
\* ========================================================================
MaxObj == 2
MaxItems == 2
ObjIds == 1..MaxObj

\* An object of the graph: its class, the text repr() gives for it, the
\* elements it iterates over (linear containers) and its items() (mappings).
\* The identity id(obj) is the object's index in the heap.
Scalar(cls, text) == [cls |-> cls, text |-> text, items |-> <<>>, pairs |-> <<>>]
ListObj(items) == [cls |-> "list", text |-> "", items |-> items, pairs |-> <<>>]
DictObj(pairs) == [cls |-> "dict", text |-> "", items |-> <<>>, pairs |-> pairs]

SeqsUpTo(S, n) == UNION {[1..k -> S] : k \in 0..n}

ObjectShapes ==
    {Scalar("int", "10"), Scalar("str", "'a'")}
    \cup {ListObj(items) : items \in SeqsUpTo(ObjIds, MaxItems)}
    \cup {DictObj(pairs) : pairs \in SeqsUpTo(ObjIds \X ObjIds, 1)}

\* Values whose representation can fail: an object whose __repr__ raises, a
\* list subclass whose __iter__ raises, a dict subclass whose items() raises,
\* and graph nodes (text is the node's name), of the recorder's graph or not.
RecorderGraph == {"n1"}
FaultyShapes ==
    {Scalar("BadRepr", ""), Scalar("BadIter", ""), Scalar("BadItems", ""),
     Scalar("Node", "n1"), Scalar("Node", "n2")}

\* keys of a dict are hashable: no list and no dict is a key
Hashable(o) == o.cls \notin {"list", "dict", "BadIter", "BadItems"}
Heaps == {h \in [ObjIds -> ObjectShapes] :
            \A o \in ObjIds : \A i \in DOMAIN h[o].pairs : Hashable(h[h[o].pairs[i][1]])}

\* isinstance(value, candidate) for the candidates of _TYPE_MAPPING, by the
\* value's class
IsInstance(cls, candidate) ==
    CASE candidate = "Number"   -> cls \in {"int", "float", "bool"}
      [] candidate = "str"      -> cls = "str"
      [] candidate = "NoneType" -> cls = "NoneType"
      [] candidate = "List"     -> cls \in {"list", "BadIter"}
      [] candidate = "Tuple"    -> cls = "tuple"
      [] candidate = "Deque"    -> cls = "deque"
      [] candidate = "Set"      -> cls = "set"
      [] candidate = "Sequence" -> cls \in {"list", "tuple", "str", "range", "bytes",
                                            "deque", "BadIter"}
      [] candidate = "Counter"  -> cls = "Counter"
      [] candidate = "Mapping"  -> cls \in {"dict", "Counter", "BadItems"}
      [] candidate = "object"   -> TRUE

\* mutant of _TYPE_MAPPING: the linear containers come before the scalars
_TYPE_MAPPING_containersFirst ==
    << <<"List", "List">>, <<"Tuple", "Tuple">>, <<"Deque", "Deque">>,
       <<"Set", "Set">>, <<"Sequence", "Sequence">>,
       <<"Number", "Number">>, <<"str", "String">>, <<"NoneType", "None">>,
       <<"Counter", "Counter">>, <<"Mapping", "Mapping">>,
       <<"object", "Object">> >>

\* _GRAPH_OBJECT_MAPPING in insertion order (recorder.py:88-94):
\* <<validator, type flag>>
_GRAPH_OBJECT_MAPPING ==
    << <<"is_node", "Node">>, <<"is_edge", "Edge">>,
       <<"is_data_edge", "DataEdge">>, <<"is_multi_edge", "MultiEdge">>,
       <<"is_data_multi_edge", "DataMultiEdge">> >>

\* the validators of the graph library that accept a value of the class
Accepted(cls) == IF cls = "Node" THEN {"is_node"} ELSE {}

\* _TYPE_MAPPING in insertion order: <<candidate, type string>>
_TYPE_MAPPING ==
    << <<"Number", "Number">>, <<"str", "String">>, <<"NoneType", "None">>,
       <<"List", "List">>, <<"Tuple", "Tuple">>, <<"Deque", "Deque">>,
       <<"Set", "Set">>, <<"Sequence", "Sequence">>,
       <<"Counter", "Counter">>, <<"Mapping", "Mapping">>,
       <<"object", "Object">> >>

_SINGULAR_TYPES == {"Number", "String", "None"}
_LINEAR_CONTAINER_TYPES == {"List", "Tuple", "Deque", "Set", "Sequence"}
_PAIR_CONTAINER_TYPES == {"Counter", "Mapping"}
_OBJECT_TYPE_STRING == "Object"
REFERENCE_TYPE_STRING == "reference"
INIT_TYPE_STRING == "init"

_GRAPH_OBJECT_TYPES ==
    {_GRAPH_OBJECT_MAPPING[i][2] : i \in DOMAIN _GRAPH_OBJECT_MAPPING}
_BAD_REPR_STRING == "BAD REPR FUNCTION"

\* _search_type_string (recorder.py:358-370): the flag of the first graph
\* validator that accepts the value, else the type string of the first
\* candidate of _TYPE_MAPPING the value is an instance of; when the loops
\* end without a match the function returns None, the empty string here
_search_type_string(cls, accepted) ==
    LET graph == {i \in DOMAIN _GRAPH_OBJECT_MAPPING :
                    _GRAPH_OBJECT_MAPPING[i][1] \in accepted}
        hits == {i \in DOMAIN _TYPE_MAPPING : IsInstance(cls, _TYPE_MAPPING[i][1])}
    IN IF graph # {}
       THEN _GRAPH_OBJECT_MAPPING[CHOOSE i \in graph : \A j \in graph : i <= j][2]
       ELSE IF hits # {}
       THEN _TYPE_MAPPING[CHOOSE i \in hits : \A j \in hits : i <= j][2]
       ELSE ""

\* Recursion depth at which the interpreter raises RecursionError, scaled to
\* the size of the object graphs of the model.
RecursionLimit == MaxObj + MaxItems + 2
RecursionError == [raised |-> "RecursionError"]

\* mutant of TraceAdd: the identity is never remembered
TraceAdd_forgets(memory_trace, var_id) == memory_trace

\* memory_trace.add(var_id) (recorder.py:393)
TraceAdd(memory_trace, var_id) == memory_trace \cup {var_id}

RECURSIVE process_variable_state(_, _, _, _, _, _)
RECURSIVE custom_repr(_, _, _, _, _, _)

\* A repr is a text (singular values, objects) or a list of children
\* (containers); the model keeps both shapes in one record.
TextRepr(s) == [text |-> s, children |-> <<>>]
ChildrenRepr(c) == [text |-> "", children |-> c]

\* an exception leaving a call, and a value returned by custom_repr
Raised(name) == [raised |-> name]
IsRaised(r) == "raised" \in DOMAIN r
Returned(v) == [value |-> v]

\* _generate_repr (recorder.py:285-294): repr(value), or the placeholder when
\* repr raises an Exception
_generate_repr(o) == IF o.cls = "BadRepr" THEN _BAD_REPR_STRING ELSE o.text

\* the first child, in iteration order, whose classification raised
FirstRaised(c) ==
    LET bad == {i \in DOMAIN c : IsRaised(c[i])}
    IN IF bad = {} THEN None
       ELSE Some(c[CHOOSE i \in bad : \A k \in bad : i <= k])

\* mutant of ChildTrace: the children share one set, so a child starts with
\* the identities of the siblings before it
ChildTrace_shared(memory_trace, siblings, i) ==
    memory_trace \cup {siblings[j] : j \in 1..(i - 1)}

\* copy(memory_trace) (recorder.py:307, 320, 323): the i-th child starts
\* from the set of its parent, whatever its siblings added to theirs
ChildTrace(memory_trace, siblings, i) == memory_trace

\* custom_repr with _generate_singular_repr, _generate_linear_container_repr
\* and _generate_pair_container_repr; every child gets copy(memory_trace).
\* Iterating the container is not guarded: what __iter__ or items() raises,
\* and what the classification of a child raises, leaves custom_repr.
custom_repr(h, cm, variable_state, variable_type, memory_trace, depth) ==
    LET o == h[variable_state]
    IN
    IF variable_type = REFERENCE_TYPE_STRING THEN Returned(None)
    ELSE IF variable_type \in _GRAPH_OBJECT_TYPES
    THEN Returned(Some(TextRepr(_generate_repr(o))))
    ELSE IF variable_type \in _SINGULAR_TYPES \/ variable_type = _OBJECT_TYPE_STRING
    THEN Returned(Some(TextRepr(_generate_repr(o))))
    ELSE IF variable_type \in _LINEAR_CONTAINER_TYPES
    THEN IF o.cls = "BadIter" THEN Raised("RuntimeError")
         ELSE LET c == [i \in DOMAIN o.items |->
                          process_variable_state(h, cm, _INNER_IDENTIFIER_STRING,
                              o.items[i], ChildTrace(memory_trace, o.items, i),
                              depth + 1)]
              IN IF IsNone(FirstRaised(c)) THEN Returned(Some(ChildrenRepr(c)))
                 ELSE Get(FirstRaised(c))
    ELSE IF variable_type \in _PAIR_CONTAINER_TYPES
    THEN IF o.cls = "BadItems" THEN Raised("RuntimeError")
         ELSE LET flat == [i \in 1..(2 * Len(o.pairs)) |->
                             o.pairs[(i + 1) \div 2][IF i % 2 = 1 THEN 1 ELSE 2]]
                  k == [i \in DOMAIN o.pairs |->
                          process_variable_state(h, cm, _INNER_IDENTIFIER_STRING,
                              o.pairs[i][1], ChildTrace(memory_trace, flat, 2 * i - 1),
                              depth + 1)]
                  v == [i \in DOMAIN o.pairs |->
                          process_variable_state(h, cm, _INNER_IDENTIFIER_STRING,
                              o.pairs[i][2], ChildTrace(memory_trace, flat, 2 * i),
                              depth + 1)]
                  kv == [i \in 1..(2 * Len(o.pairs)) |->
                           IF i % 2 = 1 THEN k[(i + 1) \div 2] ELSE v[i \div 2]]
              IN IF IsNone(FirstRaised(kv))
                 THEN Returned(Some(ChildrenRepr(
                          [i \in DOMAIN o.pairs |-> [key |-> k[i], value |-> v[i]]])))
                 ELSE Get(FirstRaised(kv))
    ELSE Returned(Some(TextRepr(_generate_repr(o))))

\* get_cytoscape_id (cytoscape_helper.py:25-29): graph.nodes[identifier]
\* raises KeyError for a node that is not in the graph
get_cytoscape_id(graph, identifier) ==
    IF identifier \in graph THEN Returned(identifier) ELSE Raised("KeyError")

process_variable_state(h, cm, var_ident_str, variable_state, memory_trace, depth) ==
    IF depth > RecursionLimit THEN RecursionError
    ELSE
    LET var_id == variable_state
        seen == var_id \in memory_trace
        variable_type == IF seen THEN REFERENCE_TYPE_STRING
                         ELSE _search_type_string(h[variable_state].cls,
                                                  Accepted(h[variable_state].cls))
        trace == IF seen THEN memory_trace ELSE TraceAdd(memory_trace, var_id)
        r == custom_repr(h, cm, variable_state, variable_type, trace, depth)
        id == get_cytoscape_id(RecorderGraph, h[variable_state].text)
    IN IF IsRaised(r) THEN r
       ELSE IF variable_type \in _GRAPH_OBJECT_TYPES
       THEN IF IsRaised(id) THEN id
            ELSE [type |-> variable_type,
                  python_id |-> var_id,
                  color |-> cm[var_ident_str],
                  repr |-> r.value,
                  id |-> id.value,
                  properties |-> <<>>]
       ELSE [type |-> variable_type,
             python_id |-> var_id,
             color |-> cm[var_ident_str],
             repr |-> r.value]

\* ========================================================================
\* Recorder operations (recorder.py:173-283, 416-546)
\* ========================================================================
\* number of Recorder operations a behaviour of the model performs
MaxOps == 6

\* the identifiers the tracer may register, the values it may note (objects
\* of RecorderHeap), the line numbers and the texts the program may print
Identifiers == {<<"", "i">>, <<"f", "x">>}
IdentStrings == {identifier_to_string(i) : i \in Identifiers}
LineNos == {3, 4}
PrintTexts == {"a\n", "b"}
RecorderHeap == <<Scalar("int", "10"), ListObj(<<1, 2>>)>>
RecorderValues == DOMAIN RecorderHeap

\* mutant of ColorTaken: the while loop of assign_and_get_color is dropped
ColorTaken_never(cm, color) == FALSE

\* color in self._color_mapping.values()  (recorder.py:184)
ColorTaken(cm, color) == \E k \in DOMAIN cm : cm[k] = color

\* assign_and_get_color (recorder.py:173-189) for the draw n on which the
\* loop `while color in values: color = generate_hex()` ends
DrawEndsLoop(cm, n) == ~ColorTaken(cm, generate_hex(n))

assign_and_get_color(cm, identifier_string, n) ==
    IF identifier_string \notin DOMAIN cm
    THEN LET color == IF Cardinality(DOMAIN cm) < Len(_DEFAULT_COLOR_PALETTE)
                      THEN _DEFAULT_COLOR_PALETTE[Cardinality(DOMAIN cm) + 1]
                      ELSE generate_hex(n)
         IN DictSet(cm, identifier_string, color)
    ELSE cm

\* the draws after which assign_and_get_color returns: any, when no color is
\* generated; one whose color is not taken, when the palette is exhausted
UsesDraw(cm, identifier_string) ==
    /\ identifier_string \notin DOMAIN cm
    /\ Cardinality(DOMAIN cm) >= Len(_DEFAULT_COLOR_PALETTE)

\* register_variable (recorder.py:191-203)
register_variable(identifier) ==
    LET identifier_string == identifier_to_string(identifier)
    IN \E n \in RandomDraws :
        /\ IF UsesDraw(color_mapping, identifier_string)
           THEN DrawEndsLoop(color_mapping, n)
           ELSE n = CHOOSE d \in RandomDraws : TRUE
        /\ color_mapping' = assign_and_get_color(color_mapping, identifier_string, n)
        /\ lastOp' = "register"
        /\ UNCHANGED <<changes, final_changes, stdout_buf, stdout_cache, returned>>

EmptyRecord(line_no) ==
    [line |-> line_no, variables |-> None, accesses |-> None, stdout |-> None]

\* add_record (recorder.py:205-218)
add_record(line_no) ==
    /\ changes' = Append(changes, EmptyRecord(line_no))
    /\ lastOp' = "add_record"
    /\ UNCHANGED <<color_mapping, final_changes, stdout_buf, stdout_cache, returned>>

\* index of get_last_record / get_second_to_last_record (recorder.py:220-242)
LastIndex(chs) == Len(chs)

\* mutant of SecondToLastIndex: the first record is taken
SecondToLastIndex_first(chs) == 1

SecondToLastIndex(chs) == IF Len(chs) > 1 THEN Len(chs) - 1 ELSE Len(chs)

\* record[VARIABLE_HEADER][key] = state, creating the dict when it is None
\* (get_last_variable_change / get_second_to_last_variable_change)
SetVariable(rec, key, state) ==
    [rec EXCEPT !.variables =
        Some(DictSet(IF IsNone(@) THEN EmptyDict ELSE Get(@), key, state))]

\* add_variable_change_to_last_record / ..._to_second_to_last_record
\* (recorder.py:440-469): the right-hand side is evaluated first, so an
\* unregistered key raises KeyError and an empty change list IndexError
\* before anything is written
NoteVariable(op, idx, var_ident_str, variable_state) ==
    IF var_ident_str \notin DOMAIN color_mapping
    THEN /\ lastOp' = op \o ":KeyError"
         /\ UNCHANGED <<color_mapping, changes, final_changes, stdout_buf,
                        stdout_cache, returned>>
    ELSE IF Len(changes) = 0
    THEN /\ lastOp' = op \o ":IndexError"
         /\ UNCHANGED <<color_mapping, changes, final_changes, stdout_buf,
                        stdout_cache, returned>>
    ELSE /\ changes' = [changes EXCEPT ![idx] =
                SetVariable(@, var_ident_str,
                    process_variable_state(RecorderHeap, color_mapping,
                        var_ident_str, variable_state, {}, 1))]
         /\ lastOp' = op
         /\ UNCHANGED <<color_mapping, final_changes, stdout_buf, stdout_cache,
                        returned>>

add_variable_change_to_last_record(var_ident_str, variable_state) ==
    NoteVariable("note_last", LastIndex(changes), var_ident_str, variable_state)

add_variable_change_to_second_to_last_record(var_ident_str, variable_state) ==
    NoteVariable("note_prev", SecondToLastIndex(changes), var_ident_str,
                 variable_state)

\* ========================================================================
\* Idle values of each component's variables
\* ========================================================================
RecIdle ==
    /\ color_mapping = _DEFAULT_COLOR_MAPPING
    /\ changes = <<>>
    /\ final_changes = None
    /\ stdout_buf = ""
    /\ stdout_cache = <<>>
    /\ returned = None
    /\ lastOp = "init"
    /\ nOps = 0
ClsIdle ==
    /\ heap = [o \in ObjIds |-> Scalar("int", "10")]
    /\ classified = None
SbxIdle ==
    /\ is_local = FALSE
    /\ interp_builtins = {}
    /\ user_builtins = None
    /\ modules = <<>>
    /\ custom_ns = <<>>
    /\ importLog = None
    /\ callLog = None
InpIdle ==
    /\ input_list = <<>>
    /\ input_given = <<>>
    /\ input_calls = 0
    /\ ctl_stdout = ""
    /\ inputLog = None
IsoIdle ==
    /\ tracer_cls = None
    /\ nx_module = None
    /\ instances = None
TrcIdle ==
    /\ frame_locals = <<>>
    /\ frame_to_local_reprs = <<>>
    /\ pending = None
    /\ traceLog = None
GcIdle == InpIdle /\ IsoIdle /\ TrcIdle
FnIdle == fn_input = None /\ fn_output = None
ThrIdle ==
    /\ thr_hook = None /\ thr_depth = None /\ thr_stacks = None
    /\ start_times = None /\ thr_scopes = None /\ thr_log = None
LibIdle == FnIdle /\ ThrIdle
CtlIdle == ctl = None /\ GcIdle

\* mutant of AppendAccess: the access list is replaced by the new entry
AppendAccess_overwrite(acc, state) == Some(<<state>>)

\* list.append on an optional list that is created when it is None
\* (get_last_variable_access, recorder.py:275-283)
AppendAccess(acc, state) == Some(Append(IF IsNone(acc) THEN <<>> ELSE Get(acc), state))

\* add_variable_access_to_last_record (recorder.py:471-479).  The folded list
\* copies each record shallowly ({**change}), so a record's access list that
\* existed when the fold ran is the very list held by the cached snapshot.
add_variable_access_to_last_record(access_change) ==
    IF Len(changes) = 0
    THEN /\ lastOp' = "access:IndexError"
         /\ UNCHANGED <<color_mapping, changes, final_changes, stdout_buf,
                        stdout_cache, returned>>
    ELSE LET k == LastIndex(changes)
             st == process_variable_state(RecorderHeap, color_mapping,
                       _ACCESSED_IDENTIFIER_STRING, access_change, {}, 1)
             shared(fc) == /\ ~IsNone(fc)
                           /\ k + 1 <= Len(Get(fc))
                           /\ ~IsNone(changes[k].accesses)
                           /\ ~IsNone(Get(fc)[k + 1].accesses)
             alias(fc) == IF shared(fc)
                          THEN Some([Get(fc) EXCEPT ![k + 1].accesses =
                                        AppendAccess(@, st)])
                          ELSE fc
         IN /\ changes' = [changes EXCEPT ![k].accesses = AppendAccess(@, st)]
            /\ final_changes' = alias(final_changes)
            /\ returned' = IF returned = final_changes THEN alias(returned)
                           ELSE returned
            /\ lastOp' = "access"
            /\ UNCHANGED <<color_mapping, stdout_buf, stdout_cache>>

\* StringIO.readlines(): the text cut after every newline
RECURSIVE Readlines(_)
Readlines(text) ==
    IF Len(text) = 0 THEN <<>>
    ELSE LET ends == {i \in 1..Len(text) : SubSeq(text, i, i) = "\n"}
         IN IF ends = {} THEN <<text>>
            ELSE LET e == CHOOSE i \in ends : \A j \in ends : i <= j
                 IN <<SubSeq(text, 1, e)>> \o Readlines(SubSeq(text, e + 1, Len(text)))

\* read_from_io (recorder.py:416-431): <<returned value, new _stdout_cache>>
read_from_io(buf, cache) ==
    LET result == Readlines(buf)
    IN IF result # cache
       THEN <<Some(SubSeq(result, Len(cache) + 1, Len(result))), result>>
       ELSE <<None, cache>>

\* add_stdout_change (recorder.py:433-438): read_from_io runs first, then the
\* record is looked up (IndexError on an empty change list)
add_stdout_change ==
    LET r == read_from_io(stdout_buf, stdout_cache)
    IN /\ stdout_cache' = r[2]
       /\ IF Len(changes) = 0
          THEN /\ lastOp' = "stdout:IndexError"
               /\ UNCHANGED changes
          ELSE /\ changes' = [changes EXCEPT ![SecondToLastIndex(changes)].stdout = r[1]]
               /\ lastOp' = "stdout"
       /\ UNCHANGED <<color_mapping, final_changes, stdout_buf, returned>>

\* the traced program writes to the redirected standard output
UserPrint(text) ==
    /\ stdout_buf' = stdout_buf \o text
    /\ lastOp' = "print"
    /\ UNCHANGED <<color_mapping, changes, final_changes, stdout_cache, returned>>

\* _init_result_object (recorder.py:481-507)
InitState(color) == [type |-> INIT_TYPE_STRING, color |-> color, repr |-> None]
_init_result_object(cm) ==
    [line |-> 0,
     variables |->
        IF Cardinality(DOMAIN cm) > Cardinality(DOMAIN _DEFAULT_COLOR_MAPPING)
        THEN Some([key \in (DOMAIN cm) \ {_INNER_IDENTIFIER_STRING,
                                          _ACCESSED_IDENTIFIER_STRING} |->
                      InitState(cm[key])])
        ELSE None,
     accesses |-> None,
     stdout |-> None]

TypeErrorMark == [raised |-> "TypeError"]

\* one iteration of the loop of _process_change_list (recorder.py:517-531):
\* <<snapshot appended, new previous_variables>>; item assignment on None
\* (a diff over an absent init mapping) raises TypeError
FoldRecord(change, previous_variables) ==
    IF IsNone(change.variables)
    THEN <<[change EXCEPT !.variables = None], previous_variables>>
    ELSE IF IsNone(previous_variables)
    THEN IF DOMAIN Get(change.variables) = {}
         THEN <<[change EXCEPT !.variables = None], None>>
         ELSE <<TypeErrorMark, None>>
    ELSE LET cur == [k \in (DOMAIN Get(previous_variables))
                               \cup (DOMAIN Get(change.variables)) |->
                        IF k \in DOMAIN Get(change.variables)
                        THEN Get(change.variables)[k]
                        ELSE Get(previous_variables)[k]]
         IN <<[change EXCEPT !.variables = Some(cur)], Some(cur)>>

RECURSIVE FoldFrom(_, _, _)
FoldFrom(chs, i, previous_variables) ==
    IF i > Len(chs) THEN <<>>
    ELSE LET f == FoldRecord(chs[i], previous_variables)
         IN <<f[1]>> \o FoldFrom(chs, i + 1, f[2])

\* the list _process_change_list builds when nothing is cached
Fold(chs, cm) ==
    LET init_object == _init_result_object(cm)
    IN <<init_object>> \o FoldFrom(chs, 1, init_object.variables)

FoldRaises(folded) == \E i \in DOMAIN folded : "raised" \in DOMAIN folded[i]

\* mutant of RawAfterFold: the fold works on the raw records themselves
\* (temp_object = change), so each raw record ends up holding its snapshot
RawAfterFold_aliased(chs, folded) == [i \in DOMAIN chs |-> folded[i + 1]]

\* the raw change list after the fold: every record was copied
\* (temp_object = {**change}, recorder.py:520), so it is as before
RawAfterFold(chs, folded) == chs

\* a read that directly follows a read is logged as "reread"
ReadName(prev) == IF prev \in {"read", "reread"} THEN "reread" ELSE "read"

\* final_change_list / _process_change_list (recorder.py:509-546)
_process_change_list ==
    IF IsNone(final_changes)
    THEN LET folded == Fold(changes, color_mapping)
         IN IF FoldRaises(folded)
            THEN /\ lastOp' = "read:TypeError"
                 /\ UNCHANGED <<color_mapping, changes, final_changes,
                                stdout_buf, stdout_cache, returned>>
            ELSE /\ final_changes' = Some(folded)
                 /\ returned' = Some(folded)
                 /\ changes' = RawAfterFold(changes, folded)
                 /\ lastOp' = ReadName(lastOp)
                 /\ UNCHANGED <<color_mapping, stdout_buf, stdout_cache>>
    ELSE /\ returned' = final_changes
         /\ lastOp' = ReadName(lastOp)
         /\ UNCHANGED <<color_mapping, changes, final_changes, stdout_buf,
                        stdout_cache>>

InitRecorder ==
    /\ RecIdle /\ LibIdle /\ ClsIdle /\ SbxIdle /\ CtlIdle

\* every operation counts against the budget of the behaviour
Budget == nOps < MaxOps /\ nOps' = nOps + 1

RegisterVariable ==
    /\ Budget
    /\ \E identifier \in Identifiers : register_variable(identifier)
    /\ UNCHANGED <<clsVars, sbxVars, ctlVars, libVars>>
AddRecord ==
    /\ Budget
    /\ \E line_no \in LineNos : add_record(line_no)
    /\ UNCHANGED <<clsVars, sbxVars, ctlVars, libVars>>
NoteLast ==
    /\ Budget
    /\ \E key \in IdentStrings, v \in RecorderValues :
          add_variable_change_to_last_record(key, v)
    /\ UNCHANGED <<clsVars, sbxVars, ctlVars, libVars>>
NotePrevious ==
    /\ Budget
    /\ \E key \in IdentStrings, v \in RecorderValues :
          add_variable_change_to_second_to_last_record(key, v)
    /\ UNCHANGED <<clsVars, sbxVars, ctlVars, libVars>>
NoteAccess ==
    /\ Budget
    /\ \E v \in RecorderValues : add_variable_access_to_last_record(v)
    /\ UNCHANGED <<clsVars, sbxVars, ctlVars, libVars>>
NoteStdout ==
    /\ Budget
    /\ add_stdout_change
    /\ UNCHANGED <<clsVars, sbxVars, ctlVars, libVars>>
ProgramOutput ==
    /\ Budget
    /\ \E text \in PrintTexts : UserPrint(text)
    /\ UNCHANGED <<clsVars, sbxVars, ctlVars, libVars>>
ReadFinal ==
    /\ Budget
    /\ _process_change_list
    /\ UNCHANGED <<clsVars, sbxVars, ctlVars, libVars>>

NextRecorder ==
    \/ RegisterVariable
    \/ AddRecord
    \/ NoteLast
    \/ NotePrevious
    \/ NoteAccess
    \/ NoteStdout
    \/ ProgramOutput
    \/ ReadFinal

SpecRecorder == InitRecorder /\ [][NextRecorder]_vars

\* ---- C1 ----------------------------------------------------------------
IsRead(op) == op \in {"read", "reread"}

\* C1: whenever final_change_list is read, the list returned has one entry
\* more than the change list has records at that moment.
C1_LengthPlusOne ==
    IsRead(lastOp) => Len(Get(returned)) = Len(changes) + 1

\* ---- C2 ----------------------------------------------------------------
\* C2: a read of final_change_list leaves the raw change list, the color
\* mapping and the stdout cache as they were, and a read that directly
\* follows a read returns the same sequence.
C2_ReadIsIdempotent ==
    [][ /\ IsRead(lastOp') =>
             /\ changes' = changes
             /\ color_mapping' = color_mapping
             /\ stdout_cache' = stdout_cache
        /\ lastOp' = "reread" => returned' = returned ]_vars

\* two reads in a row of a change list whose record carries a diff
C2_Witness ==
    /\ lastOp = "reread"
    /\ Len(changes) >= 1
    /\ ~IsNone(changes[1].variables)
    /\ Len(Get(returned)) = Len(changes) + 1
    /\ Get(returned)[2].variables # changes[1].variables

\* ========================================================================
\* SpecColor: register_variable alone, past the end of the palette
\* ========================================================================
MaxColorIdents == 14

\* the k-th identifier registered, named as test_color_assignment names them
ColorIdentifier(k) == <<"", ToString(k)>>

InitColor == RecIdle /\ LibIdle /\ ClsIdle /\ SbxIdle /\ CtlIdle

\* registers an identifier registered before or the next fresh one (fresh
\* identifiers are interchangeable, so the model takes them in order)
RegisterColor ==
    /\ \E k \in 1..MaxColorIdents :
          /\ k <= Cardinality(DOMAIN color_mapping)
                    - Cardinality(DOMAIN _DEFAULT_COLOR_MAPPING) + 1
          /\ register_variable(ColorIdentifier(k))
    /\ UNCHANGED <<nOps, clsVars, sbxVars, ctlVars, libVars>>

NextColor == RegisterColor

SpecColor == InitColor /\ [][NextColor]_vars

InitClassify ==
    /\ heap \in Heaps
    /\ classified = None
    /\ RecIdle /\ LibIdle /\ SbxIdle /\ CtlIdle

\* one top-level call, as add_variable_access_to_last_record makes it
\* (recorder.py:477-479): memory_trace is None, so a fresh set
Classify(root) ==
    /\ classified = None
    /\ classified' = Some([root |-> root,
                           state |-> process_variable_state(heap, color_mapping,
                               _ACCESSED_IDENTIFIER_STRING, root, {}, 1)])
    /\ UNCHANGED <<heap, recVars, sbxVars, ctlVars, libVars>>

NextClassify == \E root \in ObjIds : Classify(root)

SpecClassify == InitClassify /\ [][NextClassify]_vars

\* SpecRepr: the same call over object graphs that hold values whose
\* representation can fail and graph nodes
ReprHeaps == {h \in [ObjIds -> ObjectShapes \cup FaultyShapes] :
                \A o \in ObjIds : \A i \in DOMAIN h[o].pairs :
                    Hashable(h[h[o].pairs[i][1]])}

InitRepr ==
    /\ heap \in ReprHeaps
    /\ classified = None
    /\ RecIdle /\ LibIdle /\ SbxIdle /\ CtlIdle

SpecRepr == InitRepr /\ [][NextClassify]_vars

\* ---- C3 ----------------------------------------------------------------
Children(node) ==
    IF IsNone(node.repr) THEN <<>>
    ELSE IF node.type \in _PAIR_CONTAINER_TYPES
    THEN [i \in 1..(2 * Len(Get(node.repr).children)) |->
            IF i % 2 = 1 THEN Get(node.repr).children[(i + 1) \div 2].key
                         ELSE Get(node.repr).children[i \div 2].value]
    ELSE Get(node.repr).children

\* every node of a classification whose identity is that of a node enclosing
\* it is a 'reference' without repr (hence without children), no call ran
\* into the recursion limit, and no identity is descended twice on one path
RECURSIVE CycleSafe(_, _)
CycleSafe(node, ancestors) ==
    /\ "raised" \notin DOMAIN node
    /\ IF node.python_id \in ancestors
       THEN node.type = REFERENCE_TYPE_STRING /\ IsNone(node.repr)
       ELSE \A i \in DOMAIN Children(node) :
               CycleSafe(Children(node)[i], ancestors \cup {node.python_id})

RECURSIVE TreeDepth(_)
TreeDepth(node) ==
    IF "raised" \in DOMAIN node THEN 1
    ELSE LET c == Children(node)
             ds == {TreeDepth(c[i]) : i \in DOMAIN c}
         IN 1 + (IF ds = {} THEN 0 ELSE CHOOSE d \in ds : \A e \in ds : e <= d)

StartsWith(s, prefix) ==
    Len(s) >= Len(prefix) /\ SubSeq(s, 1, Len(prefix)) = prefix

\* sub in s, for strings
Contains(s, sub) ==
    \E i \in 1..(Len(s) - Len(sub) + 1) : SubSeq(s, i, i + Len(sub) - 1) = sub

\* the top-level package of a dotted module name
TopLevel(name) ==
    LET dots == {i \in 1..Len(name) : SubSeq(name, i, i) = "."}
    IN IF dots = {} THEN name
       ELSE SubSeq(name, 1, (CHOOSE i \in dots : \A j \in dots : i <= j) - 1)

_ALLOWED_STDLIB_MODULE_IMPORTS ==
    {"math", "random", "time", "functools", "itertools", "operator", "string",
     "collections", "re", "json", "heapq", "bisect", "copy", "hashlib",
     "typing", "types"}
_DEL_MODULES == {"os", "sys", "posix", "gc", "_sys", "_os"}
_BANNED_BUILTINS ==
    {"reload", "open", "compile", "file", "eval", "exec", "execfile", "exit",
     "quit", "help", "dir", "globals", "locals", "vars", "copyright",
     "credits", "license"}

\* names in the builtins module of the interpreter: the core ones, and the
\* ones the site module adds (absent under python -S)
CoreBuiltins ==
    {"__import__", "open", "compile", "eval", "exec", "dir", "globals",
     "locals", "vars", "input", "print", "len"}
SiteBuiltins == {"exit", "quit", "help", "copyright", "credits", "license"}
InterpreterBuiltins == {CoreBuiltins, CoreBuiltins \cup SiteBuiltins}

\* names the submitted program may call
CallNames == (CoreBuiltins \cup SiteBuiltins \cup {"reload", "raw_input"})
                \ {"__import__"}

Module(attrs, package) ==
    [attrs |-> attrs, package |-> package, sanitized |-> FALSE]
NoAttrs == [x \in {} |-> ""]

\* module objects of the process, each with its module-valued attributes
\* and its __package__
ProcessModules ==
    ("sys" :> Module(NoAttrs, ""))
    @@ ("os" :> Module("sys" :> "sys", ""))
    @@ ("math" :> Module(NoAttrs, ""))
    @@ ("random" :> Module("_os" :> "os", ""))
    @@ ("codecs" :> Module("sys" :> "sys", ""))
    @@ ("json" :> Module("codecs" :> "codecs", "json"))
    @@ ("contextlib" :> Module(("os" :> "os") @@ ("sys" :> "sys"), ""))
    @@ ("typing" :> Module(("sys" :> "sys") @@ ("contextlib" :> "contextlib"), ""))
    @@ ("types" :> Module(NoAttrs, ""))
    @@ ("networkx" :> Module("generators" :> "networkx.generators", "networkx"))
    @@ ("networkx.generators" :>
            Module("atlas" :> "networkx.generators.atlas", "networkx.generators"))
    @@ ("networkx.generators.atlas" :>
            Module("os" :> "os", "networkx.generators"))

\* a distribution whose name merely begins with "networkx", when installed
ExtraModules == "networkxx" :> Module("os" :> "os", "networkxx")

\* names the submitted program may import
ImportNames ==
    {"math", "json", "random", "typing", "os", "sys", "networkx", "nx",
     "networkx.generators", "networkxx", "multiprocessing"}

RECURSIVE _sanitize_module(_, _)
RECURSIVE SanitizeElements(_, _, _)

\* the loop `for ele_name in dir(module)` of _sanitize_module
\* (controller.py:462-473) over the names still to visit
SanitizeElements(mods, module, names) ==
    IF names = {} THEN mods
    ELSE LET ele_name == CHOOSE n \in names : TRUE
             ele == mods[module].attrs[ele_name]
             after == IF /\ ~mods[ele].sanitized
                         /\ StartsWith(mods[ele].package, "networkx")
                      THEN _sanitize_module(mods, ele)
                      ELSE mods
         IN SanitizeElements(after, module, names \ {ele_name})

\* _sanitize_module (controller.py:448-475): the modules after the call
_sanitize_module(mods, module) ==
    LET kept == (DOMAIN mods[module].attrs) \ _DEL_MODULES
        stripped == [mods EXCEPT ![module] =
                        [attrs |-> [a \in kept |-> @.attrs[a]],
                         package |-> @.package,
                         sanitized |-> TRUE]]
    IN SanitizeElements(stripped, module, kept)

\* the bindings of the user builtin table
Original(k) == [kind |-> "original", fn |-> k]
_create_open == [kind |-> "_open", fn |-> "open"]
_create_banned_builtins(fn) == [kind |-> "_err_fn", fn |-> fn]
_create_raw_input == _create_banned_builtins("input")
_create_restrict_import == [kind |-> "__restricted_import__", fn |-> "__import__"]

\* mutant of Restricted: the trusted flag is read the wrong way round
Restricted_inverted(local) == local

\* `not self._is_local` (controller.py:563-567)
Restricted(local) == ~local

\* _collect_builtins (controller.py:556-576): the table built
_collect_builtins(builtins, local) ==
    [k \in builtins |->
        IF k = "open" /\ Restricted(local) THEN _create_open
        ELSE IF k \in _BANNED_BUILTINS /\ Restricted(local)
             THEN _create_banned_builtins(k)
        ELSE IF k = "__import__" /\ Restricted(local)
             THEN _create_restrict_import
        ELSE IF k = "raw_input" THEN _create_raw_input
        ELSE IF k = "input" THEN _create_raw_input
        ELSE Original(k)]

\* messages of the stubs (controller.py:516-520, 533-539)
ErrFnMessage(fn) ==
    "'" \o fn \o "' is not supported by Executor. \n"
        \o "If you're using a local instance, please try to turn on is_local"
OpenMessage ==
    "open() is not supported by Executor. \n"
        \o "Instead use io.StringIO() to simulate a file. \n"
        \o "Here is an example: https://goo.gl/uNvBGl \n"
        \o "If you're using a local instance, please try to turn on is_local"

\* what a call of the name in the submitted program does
CallOutcome(table, name) ==
    IF name \notin DOMAIN table
    THEN [name |-> name, outcome |-> "NameError",
          message |-> "name '" \o name \o "' is not defined"]
    ELSE IF table[name].kind = "_open"
    THEN [name |-> name, outcome |-> "raised", message |-> OpenMessage]
    ELSE IF table[name].kind = "_err_fn"
    THEN [name |-> name, outcome |-> "raised",
          message |-> ErrFnMessage(table[name].fn)]
    ELSE [name |-> name, outcome |-> "original", message |-> ""]

\* self._BUILTIN_IMPORT(*args): the module returned, or none when no module
\* of that name can be found
_BUILTIN_IMPORT(mods, name, fromlist) ==
    IF name \notin DOMAIN mods THEN None
    ELSE Some(IF fromlist THEN name ELSE TopLevel(name))

ImportResult(name, outcome, message, real, module) ==
    [name |-> name, outcome |-> outcome, message |-> message,
     real_import |-> real, module |-> module]

ModuleNotFound(name) ==
    ImportResult(name, "ModuleNotFoundError",
                 "No module named '" \o name \o "'", TRUE, "")

\* __restricted_import__ (controller.py:485-504).  Only the str arguments
\* are kept, so the from-list never reaches the real import.
\* <<result, modules after the call>>
__restricted_import__(mods, ns, importing_name) ==
    IF importing_name \in DOMAIN ns
    THEN <<ImportResult(importing_name, "imported", "", FALSE, ns[importing_name]),
           _sanitize_module(mods, ns[importing_name])>>
    ELSE IF \/ importing_name \in _ALLOWED_STDLIB_MODULE_IMPORTS
            \/ StartsWith(importing_name, "networkx")
    THEN LET mod == _BUILTIN_IMPORT(mods, importing_name, FALSE)
         IN IF IsNone(mod) THEN <<ModuleNotFound(importing_name), mods>>
            ELSE <<ImportResult(importing_name, "imported", "", TRUE, Get(mod)),
                   _sanitize_module(mods, Get(mod))>>
    ELSE <<ImportResult(importing_name, "ImportError",
                        importing_name \o " not supported.", FALSE, ""), mods>>

\* the import statement of the submitted program, through the __import__
\* of the user builtin table
ImportOutcome(table, mods, ns, name, fromlist) ==
    IF table["__import__"].kind = "__restricted_import__"
    THEN __restricted_import__(mods, ns, name)
    ELSE LET mod == _BUILTIN_IMPORT(mods, name, fromlist)
         IN IF IsNone(mod) THEN <<ModuleNotFound(name), mods>>
            ELSE <<ImportResult(name, "imported", "", TRUE, Get(mod)), mods>>

\* _add_custom_module (controller.py:599-606) for each module that
\* GraphController._collect_globals injects (controller.py:977-984)
InjectedModules ==
    <<[module |-> "networkx", aliases |-> {"nx", "networkx"}],
      [module |-> "typing", aliases |-> {"typing"}],
      [module |-> "types", aliases |-> {"types"}]>>

RECURSIVE SanitizeInjected(_, _)
SanitizeInjected(mods, i) ==
    IF i > Len(InjectedModules) THEN mods
    ELSE SanitizeInjected(_sanitize_module(mods, InjectedModules[i].module), i + 1)

InjectedNamespace ==
    LET names == UNION {InjectedModules[i].aliases : i \in DOMAIN InjectedModules}
    IN [alias \in names |->
          InjectedModules[CHOOSE i \in DOMAIN InjectedModules :
                              alias \in InjectedModules[i].aliases].module]

InitSandbox ==
    /\ RecIdle /\ LibIdle /\ ClsIdle /\ CtlIdle
    /\ is_local \in BOOLEAN
    /\ interp_builtins \in InterpreterBuiltins
    /\ modules \in {ProcessModules, ProcessModules @@ ExtraModules}
    /\ user_builtins = None
    /\ custom_ns = EmptyDict
    /\ importLog = None
    /\ callLog = None

\* Controller._collect_builtins, the first init layer of the base class
CollectBuiltins ==
    /\ IsNone(user_builtins)
    /\ user_builtins' = Some(_collect_builtins(interp_builtins, is_local))
    /\ UNCHANGED <<is_local, interp_builtins, modules, custom_ns, importLog,
                   callLog, recVars, clsVars, ctlVars, libVars>>

\* GraphController._collect_globals, the init layer that follows
CollectGlobals ==
    /\ ~IsNone(user_builtins)
    /\ DOMAIN custom_ns = {}
    /\ modules' = SanitizeInjected(modules, 1)
    /\ custom_ns' = InjectedNamespace
    /\ UNCHANGED <<is_local, interp_builtins, user_builtins, importLog,
                   callLog, recVars, clsVars, ctlVars, libVars>>

\* the submitted program calls a builtin by name
CallBuiltin ==
    /\ DOMAIN custom_ns # {}
    /\ \E name \in CallNames :
          callLog' = Some(CallOutcome(Get(user_builtins), name))
    /\ UNCHANGED <<is_local, interp_builtins, user_builtins, modules,
                   custom_ns, importLog, recVars, clsVars, ctlVars,
                   libVars>>

\* the submitted program executes `import name` / `from name import ...`
Import ==
    /\ DOMAIN custom_ns # {}
    /\ \E name \in ImportNames, fromlist \in BOOLEAN :
          LET r == ImportOutcome(Get(user_builtins), modules, custom_ns,
                                 name, fromlist)
          IN /\ importLog' = Some(r[1])
             /\ modules' = r[2]
    /\ UNCHANGED <<is_local, interp_builtins, user_builtins, custom_ns,
                   callLog, recVars, clsVars, ctlVars, libVars>>

NextSandbox ==
    \/ CollectBuiltins
    \/ CollectGlobals
    \/ CallBuiltin
    \/ Import

SpecSandbox == InitSandbox /\ [][NextSandbox]_vars

\* ---- C5 ----------------------------------------------------------------
\* the name, or the package it belongs to, is one the controller injected
NamesInjected(name) ==
    name \in DOMAIN custom_ns \/ TopLevel(name) \in DOMAIN custom_ns

\* C5: with the trusted flag off an import of a name that is neither in the
\* allow-list nor names an injected module is denied without the real
\* import being called, with a message containing the name; with the
\* trusted flag on the import of an existing module succeeds.
C5_ImportDenied ==
    ~IsNone(importLog) =>
        LET r == Get(importLog)
        IN /\ (/\ ~is_local
               /\ r.name \notin _ALLOWED_STDLIB_MODULE_IMPORTS
               /\ ~NamesInjected(r.name))
                  => /\ r.outcome = "ImportError"
                     /\ ~r.real_import
                     /\ Contains(r.message, r.name)
           /\ (is_local /\ r.name \in DOMAIN modules) => r.outcome = "imported"

\* ---- C6 ----------------------------------------------------------------
IsStubFor(binding, k) ==
    /\ binding.kind \in {"_open", "_err_fn"}
    /\ Contains(CallOutcome(k :> binding, k).message, k)
    /\ CallOutcome(k :> binding, k).outcome = "raised"

\* C6: once the table is built, with the trusted flag off every banned name
\* of the interpreter is bound to a stub whose call raises with a message
\* naming it and every name other than the banned ones, __import__ and input
\* is bound to the original; with the flag on the banned names are bound to
\* the originals.  A call made by the program behaves as its binding says.
C6_BuiltinTable ==
    ~IsNone(user_builtins) =>
        LET table == Get(user_builtins)
        IN /\ DOMAIN table = interp_builtins
           /\ ~is_local =>
                /\ \A k \in interp_builtins \cap _BANNED_BUILTINS :
                      IsStubFor(table[k], k)
                /\ \A k \in interp_builtins \ (_BANNED_BUILTINS
                                                \cup {"__import__", "input"}) :
                      table[k] = Original(k)
           /\ is_local =>
                \A k \in interp_builtins \cap _BANNED_BUILTINS :
                      table[k] = Original(k)
           /\ ~IsNone(callLog) =>
                LET c == Get(callLog)
                IN (c.name \in interp_builtins \cap _BANNED_BUILTINS) =>
                      IF is_local THEN c.outcome = "original"
                      ELSE c.outcome = "raised" /\ Contains(c.message, c.name)

\* the program of an untrusted run has called a banned builtin that the
\* site module provides
C6_Witness ==
    /\ ~is_local
    /\ ~IsNone(callLog)
    /\ Get(callLog).name = "quit"
    /\ Get(callLog).outcome = "raised"

\* ---- C7 ----------------------------------------------------------------
RECURSIVE ReachableModules(_, _)
\* the modules reachable from the ones in seen through module attributes
ReachableModules(mods, seen) ==
    LET more == seen \cup UNION {{mods[m].attrs[a] : a \in DOMAIN mods[m].attrs} : m \in seen}
    IN IF more = seen THEN seen ELSE ReachableModules(mods, more)

\* C7: the module the restricted import has handed to the program, and every
\* module reachable from it through module-valued attributes, has no
\* attribute named os, sys, posix, gc, _os or _sys.
C7_SanitizedRecursively ==
    (/\ ~IsNone(importLog)
     /\ ~is_local
     /\ Get(importLog).outcome = "imported")
        => \A m \in ReachableModules(modules, {Get(importLog).module}) :
               (DOMAIN modules[m].attrs) \cap _DEL_MODULES = {}

\* ========================================================================
\* Controller life cycle: init, main = __enter__, _run, __exit__
\* (controller.py:55, 107-278, 317-322, 624-790)
\* ========================================================================
\* calls of main in a behaviour, and CPU seconds a run may consume
MaxMains == 2
MaxCpu == 3

\* ErrorCode (settings/variables.py:48-55)
CTRL_ERROR_CODE == 3
INIT_ERROR_CODE == 5
PREP_ERROR_CODE == 7
POST_ERROR_CODE == 11
RUNNER_ERROR_CODE == 13
CPU_OUT_EXIT_CODE == 17
MEM_OUT_EXIT_CODE == 19

SERVER_VERSION == "3.2.4"

\* what uname reports on the hosts the controller may run on
Unames ==
    {[system |-> "Linux", release |-> "5.4.0", machine |-> "x86_64",
      libc |-> "glibc2.31"],
     [system |-> "Darwin", release |-> "13.4", machine |-> "arm64",
      libc |-> ""],
     [system |-> "Windows", release |-> "10", machine |-> "AMD64",
      libc |-> ""]}

\* platform.platform() of the standard library: the system name followed by
\* release, machine and, on Linux, the C library
platform(u) ==
    IF u.system = "Linux"
    THEN u.system \o "-" \o u.release \o "-" \o u.machine \o "-with-" \o u.libc
    ELSE IF u.system = "Darwin"
    THEN "macOS-" \o u.release \o "-" \o u.machine
    ELSE u.system \o "-" \o u.release

\* _PLATFORM_STR = platform()  (controller.py:55)
_PLATFORM_STR(u) == platform(u)

\* `resource is not None` (controller.py:49-52): the module exists on POSIX
HasResource(u) == u.system # "Windows"

\* sys.modules["posix"] exists where the os module is built on posix
HasPosix(u) == u.system # "Windows"

_DEFAULT_CONTEXT_LAYERS ==
    <<"_RandomContext", "_FDRedirectLayer", "_ModuleRestrict", "_ResourceRestrict">>

\* ControllerResultAnnouncer.show_error (controller.py:206-221): writes the
\* error with its code and a trace (the one given, else format_exc()), and
\* raises SystemExit
show_error(c, error_code) ==
    [c EXCEPT !.announced = Append(@, error_code), !.raised = "SystemExit",
              !.trace = "traceback"]

\* a step of the named phase raises the exception
Raise(c, phase, exception) ==
    [c EXCEPT !.raised = exception, !.raises = Append(@, phase)]

\* enter of each layer (controller.py:131-134, 145-191, 242-258, 272-274);
\* random.seed is looked up in the random module when the layer runs
LayerEnter(layer, c, local) ==
    IF layer = "_RandomContext"
    THEN IF c.seed_patched THEN Raise(c, "prep", "TypeError")
         ELSE [c EXCEPT !.seeded = TRUE]
    ELSE IF layer = "_FDRedirectLayer" THEN [c EXCEPT !.redirected = @ + 1]
    ELSE IF layer = "_ModuleRestrict"
    THEN IF local THEN c
         ELSE IF c.posix_present THEN [c EXCEPT !.posix_present = FALSE]
         ELSE Raise(c, "prep", "KeyError")
    ELSE IF _PLATFORM_STR(c.uname) = "Linux" /\ HasResource(c.uname)
         THEN [c EXCEPT !.sigxcpu_handler = TRUE,
                        !.rlimit_cpu = Some(c.re_cpu_time),
                        !.sigsegv_handler = TRUE,
                        !.rlimit_as = TRUE]
         ELSE c

\* exit of each layer (controller.py:136-139, 193-194, 261-266, 276-278)
LayerExit(layer, c) ==
    IF layer = "_RandomContext"
    THEN IF c.seed_patched THEN Raise(c, "post", "TypeError")
         ELSE [c EXCEPT !.seeded = FALSE]
    ELSE IF layer = "_FDRedirectLayer" THEN [c EXCEPT !.redirected = @ - 1]
    ELSE IF layer = "_ModuleRestrict" THEN c
    ELSE IF _PLATFORM_STR(c.uname) = "Linux" /\ HasResource(c.uname)
         THEN [c EXCEPT !.rlimit_cpu = None]
         ELSE c

RECURSIVE PrepFrom(_, _, _)
PrepFrom(c, i, local) ==
    IF i > Len(_DEFAULT_CONTEXT_LAYERS) THEN c
    ELSE LET layer == _DEFAULT_CONTEXT_LAYERS[i]
             n == LayerEnter(layer, c, local)
         IN IF n.raised # "" THEN n
            ELSE PrepFrom([n EXCEPT !.entered = Append(@, layer)], i + 1, local)

\* _prep_process (controller.py:634-641)
_prep_process(c, local) == PrepFrom(c, 1, local)

RECURSIVE PostFrom(_, _)
PostFrom(c, i) ==
    IF i > Len(_DEFAULT_CONTEXT_LAYERS) THEN c
    ELSE LET layer == _DEFAULT_CONTEXT_LAYERS[i]
             n == LayerExit(layer, c)
         IN IF n.raised # "" THEN n
            ELSE PostFrom([n EXCEPT !.exited = Append(@, layer)], i + 1)

\* _post_process (controller.py:643-650)
_post_process(c) == PostFrom(c, 1)

\* Controller.__enter__ (controller.py:690-700)
__enter__(c, local) ==
    LET p == _prep_process([c EXCEPT !.in_context = TRUE], local)
    IN IF p.raised # "" THEN show_error(p, PREP_ERROR_CODE) ELSE p

\* Controller.__exit__ (controller.py:702-714), called with the exception
\* that left the body still in flight (c.raised); it returns None, so that
\* exception goes on unless the post process raises
__exit__(c) ==
    LET p == _post_process([c EXCEPT !.in_context = FALSE, !.raised = ""])
    IN IF p.raised # "" THEN show_error(p, POST_ERROR_CODE)
       ELSE [p EXCEPT !.raised = c.raised]

\* mutant of _make_init_layers: the version is checked after the builders
_make_init_layers_versionLast ==
    <<"_build_graph", "_build_recorder", "_build_tracer", "_check_version",
      "_collect_builtins", "_collect_globals">>

\* the init layers of GraphController, in the order _init_process runs them
\* (controller.py:617-622, 966-975)
_make_init_layers ==
    <<"_check_version", "_build_graph", "_build_recorder", "_build_tracer",
      "_collect_builtins", "_collect_globals">>

\* each init layer (controller.py:914-964)
InitLayer(layer, c) ==
    IF layer = "_check_version"
    THEN IF c.target_version # SERVER_VERSION
         THEN Raise(c, "init", "ValueError") ELSE c
    ELSE IF layer = "_build_graph"
    THEN IF c.graph_data_ok THEN [c EXCEPT !.graph_built = TRUE]
         ELSE Raise(c, "init", "ValueError")
    ELSE IF layer = "_build_recorder"
    THEN [c EXCEPT !.recorder_built = TRUE, !.records = 0, !.final_len = None]
    ELSE IF layer = "_build_tracer"
    THEN IF c.recorder_built THEN [c EXCEPT !.tracer_built = TRUE]
         ELSE Raise(c, "init", "ValueError")
    ELSE c

RECURSIVE InitFrom(_, _)
InitFrom(c, i) ==
    IF i > Len(_make_init_layers) THEN c
    ELSE LET layer == _make_init_layers[i]
             n == InitLayer(layer, c)
         IN IF n.raised # "" THEN n
            ELSE InitFrom([n EXCEPT !.init_layers = Append(@, layer)], i + 1)

\* _init_process (controller.py:624-632)
_init_process(c) == InitFrom(c, 1)

\* ways the runner ends by raising an Exception: the source does not
\* compile, user code raises, a stub or the restricted import denies
RunnerExceptions == {"SyntaxError", "UserException", "CapabilityDenied"}

\* how the run step may end: the source is compiled before anything is
\* executed, and without a recorder there is no result to read
RunOutcomes(c) ==
    (IF c.cpu_used = 0 THEN {"SyntaxError"} ELSE {})
        \cup {"UserException", "CapabilityDenied", "SystemExit"}
        \cup (IF c.recorder_built THEN {"ok"} ELSE {})

\* GraphController._graph_runner on success (controller.py:1016-1019): the
\* result is recorder.final_change_list, folded once and then cached
FinalLength(c) == IF IsNone(c.final_len) THEN c.records + 1 ELSE Get(c.final_len)

\* Controller._run (controller.py:716-742): only Exception is caught
_run(c, outcome) ==
    IF outcome \in RunnerExceptions
    THEN show_error(Raise([c EXCEPT !.failure = outcome], "run", outcome),
                    RUNNER_ERROR_CODE)
    ELSE IF outcome = "SystemExit"
    THEN Raise([c EXCEPT !.failure = outcome], "run", "SystemExit")
    ELSE [c EXCEPT !.final_len = Some(FinalLength(c)),
                   !.value = Some(FinalLength(c))]

\* _ResourceRestrict._cpu_time_out_helper (controller.py:230-234); no
\* exception is being handled, so format_exc() has no trace to give
_cpu_time_out_helper(c) ==
    [show_error(Raise([c EXCEPT !.failure = "SIGXCPU"], "cpu", "SIGXCPU"),
                CPU_OUT_EXIT_CODE) EXCEPT !.trace = "NoneType: None"]

\* `with self as ctrl:` (controller.py:777-778): __exit__ is called however
\* the body ends
ExitRuns(outcome) == TRUE

\* the end of main once the body of the with statement has ended
\* (controller.py:777-790)
EndOfMain(c, outcome) ==
    LET x == IF ExitRuns(outcome) THEN __exit__(c) ELSE c
    IN [x EXCEPT !.pc = "idle",
                 !.result = IF x.raised = "" THEN "returned" ELSE "SystemExit",
                 !.value = IF x.raised = "" THEN @ ELSE None,
                 !.mains = @ + 1]

NewController(u, version, cpu_time, graph_ok) ==
    [uname |-> u, target_version |-> version, re_cpu_time |-> cpu_time,
     graph_data_ok |-> graph_ok,
     init |-> "no", init_layers |-> <<>>, graph_built |-> FALSE,
     recorder_built |-> FALSE, tracer_built |-> FALSE,
     in_context |-> FALSE, pc |-> "idle", mains |-> 0,
     entered |-> <<>>, exited |-> <<>>, announced |-> <<>>, raised |-> "",
     raises |-> <<>>, trace |-> "",
     seeded |-> FALSE, redirected |-> 0, seed_patched |-> FALSE,
     posix_present |-> HasPosix(u),
     rlimit_cpu |-> None, sigxcpu_handler |-> FALSE,
     rlimit_as |-> FALSE, sigsegv_handler |-> FALSE,
     cpu_used |-> 0, executed_in |-> {}, records |-> 0, final_len |-> None,
     failure |-> "", result |-> "", value |-> None]

InitController ==
    /\ RecIdle /\ LibIdle /\ ClsIdle /\ GcIdle
    /\ is_local \in BOOLEAN
    /\ interp_builtins = {}
    /\ user_builtins = None
    /\ modules = <<>>
    /\ custom_ns = <<>>
    /\ importLog = None
    /\ callLog = None
    /\ \E u \in Unames, version \in {SERVER_VERSION, "3.2.3"},
          cpu_time \in {1, 2}, graph_ok \in BOOLEAN :
          ctl = NewController(u, version, cpu_time, graph_ok)

\* Controller.__call__ / init (controller.py:675-688)
InitProcess ==
    /\ ctl.pc = "idle"
    /\ ctl.init = "no"
    /\ LET r == _init_process([ctl EXCEPT !.raised = ""])
       IN ctl' = IF r.raised # ""
                 THEN [show_error(r, INIT_ERROR_CODE) EXCEPT !.init = "failed"]
                 ELSE [r EXCEPT !.init = "ok"]
    /\ UNCHANGED <<recVars, clsVars, sbxVars, gcVars, libVars>>

\* main up to the body of the with statement: __enter__
MainEnter ==
    /\ ctl.pc = "idle"
    /\ ctl.mains < MaxMains
    /\ LET start == [ctl EXCEPT !.entered = <<>>, !.exited = <<>>,
                                !.failure = "", !.raised = "", !.trace = "",
                                !.cpu_used = 0, !.result = "", !.value = None]
           e == __enter__(start, is_local)
       IN ctl' = IF e.raised # ""
                 THEN [e EXCEPT !.result = "SystemExit", !.mains = @ + 1]
                 ELSE [e EXCEPT !.pc = "run"]
    /\ UNCHANGED <<recVars, clsVars, sbxVars, gcVars, libVars>>

\* the submitted program executes a statement: it consumes a second of CPU
\* time and, when traced, opens a record; at the soft limit the kernel sends
\* SIGXCPU
RunnerStep ==
    /\ ctl.pc = "run"
    /\ ctl.cpu_used < MaxCpu
    /\ LET t == [ctl EXCEPT !.cpu_used = @ + 1,
                            !.executed_in = @ \cup {ctl.mains + 1},
                            !.records = IF ctl.tracer_built THEN @ + 1 ELSE @]
       IN ctl' = IF ~IsNone(t.rlimit_cpu) /\ t.cpu_used >= Get(t.rlimit_cpu)
                 THEN IF t.sigxcpu_handler
                      THEN EndOfMain(_cpu_time_out_helper(t), "SIGXCPU")
                      ELSE [t EXCEPT !.pc = "killed"]
                 ELSE t
    /\ UNCHANGED <<recVars, clsVars, sbxVars, gcVars, libVars>>

\* the submitted program imports random and rebinds random.seed to an
\* object that cannot be called
UserPatchesSeed ==
    /\ ctl.pc = "run"
    /\ ctl.cpu_used > 0
    /\ ~ctl.seed_patched
    /\ ctl' = [ctl EXCEPT !.seed_patched = TRUE]
    /\ UNCHANGED <<recVars, clsVars, sbxVars, gcVars, libVars>>

\* the runner ends, then the rest of main
RunnerFinish ==
    /\ ctl.pc = "run"
    /\ \E outcome \in RunOutcomes(ctl) :
          ctl' = EndOfMain(_run(ctl, outcome), outcome)
    /\ UNCHANGED <<recVars, clsVars, sbxVars, gcVars, libVars>>

NextController ==
    \/ InitProcess
    \/ MainEnter
    \/ RunnerStep
    \/ UserPatchesSeed
    \/ RunnerFinish

SpecController == InitController /\ [][NextController]_vars

\* ---- C8 ----------------------------------------------------------------
\* C8: on Linux, a run that has used up the CPU-time ceiling has ended, with
\* the CPU-exceeded code as the error announced for it.
C8_CpuCeilingEnforced ==
    (ctl.uname.system = "Linux" /\ ctl.cpu_used >= ctl.re_cpu_time)
        => /\ ctl.pc = "idle"
           /\ ctl.failure = "SIGXCPU"
           /\ ctl.result = "SystemExit"
           /\ CPU_OUT_EXIT_CODE \in Range(ctl.announced)

\* ---- C9 ----------------------------------------------------------------
\* C9: when main has ended after a failed run step, the exit of every
\* context layer has been executed and the controller has left its context.
C9_ExitRunsAfterFailure ==
    (ctl.pc = "idle" /\ ctl.failure # "")
        => /\ Range(ctl.exited) = Range(_DEFAULT_CONTEXT_LAYERS)
           /\ Len(ctl.exited) = Len(_DEFAULT_CONTEXT_LAYERS)
           /\ ~ctl.in_context
           /\ ctl.result = "SystemExit"

\* ---- C10 ---------------------------------------------------------------
Reverse(seq) == [i \in 1..Len(seq) |-> seq[Len(seq) + 1 - i]]

\* C10: enter applies random seed, output redirection, module restriction,
\* resource restriction in that order, and once exit has run the layers
\* were released in the reverse of that order.
C10_ExitReversesEnter ==
    (ctl.pc = "idle" /\ ctl.exited # <<>>)
        => /\ ctl.entered = _DEFAULT_CONTEXT_LAYERS
           /\ ctl.exited = Reverse(ctl.entered)

\* ---- C11 ---------------------------------------------------------------
\* C11: once a call of main has ended, however it ended, standard output is
\* not redirected any more and no CPU-time limit, address-space limit or
\* limit-signal handler set by the controller is in force.
C11_NothingLeftInForce ==
    (ctl.pc = "idle" /\ ctl.mains > 0)
        => /\ ctl.redirected = 0
           /\ IsNone(ctl.rlimit_cpu)
           /\ ~ctl.rlimit_as
           /\ ~ctl.sigxcpu_handler
           /\ ~ctl.sigsegv_handler

\* ---- C12 ---------------------------------------------------------------
\* the error code of each phase and breach (settings/variables.py:48-55)
PhaseCode(phase) ==
    IF phase = "init" THEN INIT_ERROR_CODE
    ELSE IF phase = "prep" THEN PREP_ERROR_CODE
    ELSE IF phase = "run" THEN RUNNER_ERROR_CODE
    ELSE IF phase = "post" THEN POST_ERROR_CODE
    ELSE IF phase = "cpu" THEN CPU_OUT_EXIT_CODE
    ELSE MEM_OUT_EXIT_CODE

\* C12: every failure raised by a step of the init, prep, run or post phase
\* has been announced, in order, with the code of its phase, and the six
\* codes are pairwise distinct.
C12_PhaseCodes ==
    /\ Len(ctl.announced) = Len(ctl.raises)
    /\ \A i \in DOMAIN ctl.raises : ctl.announced[i] = PhaseCode(ctl.raises[i])
    /\ Cardinality({PhaseCode(ph) :
                      ph \in {"init", "prep", "run", "post", "cpu", "mem"}}) = 6

\* ---- C13 ---------------------------------------------------------------
\* C13: with a submitted version other than SERVER_VERSION, init fails with
\* the init code while the graph, the recorder and the tracer are still
\* unbuilt, and the failing init step compiles and executes no user code.
C13_VersionCheckedFirst ==
    /\ []((ctl.target_version # SERVER_VERSION /\ ctl.init # "no")
            => /\ ctl.init = "failed"
               /\ INIT_ERROR_CODE \in Range(ctl.announced)
               /\ ctl.init_layers = <<>>
               /\ ~ctl.graph_built
               /\ ~ctl.recorder_built
               /\ ~ctl.tracer_built)
    /\ [][(ctl.init = "no" /\ ctl'.init = "failed")
            => /\ ctl'.announced = Append(ctl.announced, INIT_ERROR_CODE)
               /\ ctl'.raised = "SystemExit"
               /\ ctl'.executed_in = ctl.executed_in
               /\ ctl'.pc = "idle"]_vars

\* init has failed on the version although the graph data were well formed
C13_Witness ==
    /\ ctl.target_version # SERVER_VERSION
    /\ ctl.graph_data_ok
    /\ ctl.init = "failed"
    /\ ctl.announced = <<INIT_ERROR_CODE>>
    /\ ctl.mains = 0

\* ---- C14 ---------------------------------------------------------------
\* C14: when an exception escapes the submitted program, main reports the
\* failure with its trace and still hands the caller the change records
\* produced up to the failure.
C14_PartialRecordsReturned ==
    (ctl.pc = "idle" /\ ctl.failure = "UserException" /\ ctl.records > 0)
        => /\ ctl.trace = "traceback"
           /\ ~IsNone(ctl.value)

\* ---- C15 ---------------------------------------------------------------
\* the kinds of failure of a run
FailureKinds == {"SyntaxError", "UserException", "CapabilityDenied", "SIGXCPU"}

\* what the announcer writes for a failure of that kind: the message of
\* show_error names the error code (value and name) and nothing else of the
\* kind, the exception being wrapped in RunnerError
ReportedCode(c, kind) ==
    LET r == IF kind = "SIGXCPU" THEN _cpu_time_out_helper(c) ELSE _run(c, kind)
    IN r.announced[Len(r.announced)]

\* C15: a compile error, an exception raised by user code, a denied
\* capability and a resource-limit breach are reported with pairwise
\* different error codes.
C15_KindsDistinguished ==
    ctl.pc = "run"
        => \A k1, k2 \in FailureKinds :
              k1 # k2 => ReportedCode(ctl, k1) # ReportedCode(ctl, k2)

\* ---- C17 ---------------------------------------------------------------
\* C17: a controller is single-use, at most one call of main on an instance
\* executes the submitted program.
C17_SingleUse == Cardinality(ctl.executed_in) <= 1

\* ========================================================================
\* GraphController: the input feed (controller.py:881, 896-912)
\* ========================================================================
MaxInputs == 2
MaxInputCalls == 3

\* the prompts the user code passes to input(): integers and strings
PInt(n) == [kind |-> "int", n |-> n, s |-> ""]
PStr(s) == [kind |-> "str", n |-> 0, s |-> s]
Prompts == {PInt(0), PInt(12), PStr(""), PStr("name: ")}
InputStrings == {"a", "b", ""}
InputLists == UNION {[1..k -> InputStrings] : k \in 0..MaxInputs}
OutputTexts == {"x\n"}

\* str() of a non-negative int
RECURSIVE IntToStr(_)
IntToStr(n) ==
    IF n < 10 THEN SubSeq("0123456789", n + 1, n + 1)
    ELSE IntToStr(n \div 10) \o SubSeq("0123456789", (n % 10) + 1, (n % 10) + 1)

\* str(prompt) (controller.py:903)
str(prompt) == IF prompt.kind = "int" THEN IntToStr(prompt.n) ELSE prompt.s

\* mutant of PopIndex: the list is consumed from its end (pop())
PopIndex_last(list) == Len(list)

\* self._input_list.pop(0) (controller.py:899): the position taken
PopIndex(list) == 1

\* list.pop(i): <<the element, the list without it>>
Pop(list, i) ==
    <<list[i], SubSeq(list, 1, i - 1) \o SubSeq(list, i + 1, Len(list))>>

\* the message of the ValueError (controller.py:908-910)
TooFewInputs(prompt) ==
    "Cannot answer the input(" \o str(prompt) \o ") due to too few given inputs"

InitInput ==
    /\ RecIdle /\ LibIdle /\ ClsIdle /\ SbxIdle /\ ctl = None /\ IsoIdle /\ TrcIdle
    /\ input_given \in InputLists
    /\ input_list = input_given
    /\ input_calls = 0
    /\ ctl_stdout = ""
    /\ inputLog = None

\* _input (controller.py:897-910), called by the user code
_input ==
    /\ input_calls < MaxInputCalls
    /\ input_calls' = input_calls + 1
    /\ \E prompt \in Prompts :
          IF input_list # <<>>
          THEN LET popped == Pop(input_list, PopIndex(input_list))
                   input_str == popped[1]
               IN /\ input_list' = popped[2]
                  /\ ctl_stdout' = (ctl_stdout \o str(prompt)) \o (input_str \o "\n")
                  /\ inputLog' = Some([prompt |-> prompt, outcome |-> "returned",
                                       value |-> input_str])
          ELSE /\ inputLog' = Some([prompt |-> prompt, outcome |-> "ValueError",
                                    value |-> TooFewInputs(prompt)])
               /\ UNCHANGED <<input_list, ctl_stdout>>
    /\ UNCHANGED <<input_given, recVars, clsVars, sbxVars, ctl, isoVars, trcVars,
                   libVars>>

\* the user code prints between two calls of input()
InputProgramOutput ==
    /\ Len(ctl_stdout) < 2 * MaxInputCalls
    /\ \E text \in OutputTexts : ctl_stdout' = ctl_stdout \o text
    /\ UNCHANGED <<input_list, input_given, input_calls, inputLog,
                   recVars, clsVars, sbxVars, ctl, isoVars, trcVars,
                   libVars>>

NextInput ==
    \/ _input
    \/ InputProgramOutput

SpecInput == InitInput /\ [][NextInput]_vars

\* ---- C18 ---------------------------------------------------------------
\* C18: with an input list of n strings, the k-th call of input(prompt),
\* k <= n, returns the k-th string and appends the prompt, that string and a
\* newline to the captured output; a later call raises ValueError and
\* appends nothing.
C18_InputFeed ==
    [][input_calls' = input_calls + 1
        => LET k == input_calls'
               call == Get(inputLog')
           IN IF k <= Len(input_given)
              THEN /\ call.outcome = "returned"
                   /\ call.value = input_given[k]
                   /\ ctl_stdout' = ctl_stdout \o str(call.prompt)
                                       \o input_given[k] \o "\n"
              ELSE /\ call.outcome = "ValueError"
                   /\ ctl_stdout' = ctl_stdout]_vars

\* two strings were given and consumed with output in between, and the third
\* call has raised
C18_Witness ==
    /\ Len(input_given) = 2
    /\ input_given[1] # input_given[2]
    /\ input_calls = 3
    /\ ~IsNone(inputLog)
    /\ Get(inputLog).outcome = "ValueError"
    /\ input_list = <<>>
    /\ Len(ctl_stdout) > 4

\* ========================================================================
\* Two GraphController instances in one process (controller.py:914-1019,
\* sight.py:164-262)
\* ========================================================================
MaxIsoMains == 1
MaxTraced == 2

\* the controllers of the process; a controller's own graph, recorder and
\* source are named after it
Ids == {"A", "B"}

\* the names a graph is injected under (controller.py:978, 993-994)
GraphNames == {"graph", "g_graph", "networkx.g_graph"}

\* deepcopy(_tracer_cls) (controller.py:951): copy.deepcopy returns a class
\* as it is, so every controller holds the one Tracer class of the process
deepcopy_tracer_cls(cls) == cls

\* Tracer.set_new_recorder and Tracer.set_additional_source on that class
\* (sight.py:233-236, 257-262; controller.py:953-958)
_build_tracer(cls, i) ==
    [deepcopy_tracer_cls(cls) EXCEPT !._recorder = Some(i),
                                     !._additional_source = Some(i)]

NewInstance ==
    [init |-> FALSE, _recorder |-> <<>>, user_globals |-> None, pc |-> "idle",
     tracer |-> None, seen |-> {}, mains |-> 0]

AllIdle == \A j \in Ids : instances[j].pc = "idle"
TracedSoFar ==
    Len(instances["A"]._recorder) + Len(instances["B"]._recorder)

InitIsolation ==
    /\ RecIdle /\ LibIdle /\ ClsIdle /\ SbxIdle /\ ctl = None /\ InpIdle /\ TrcIdle
    /\ tracer_cls = [_recorder |-> None, _additional_source |-> None]
    /\ nx_module = [g_graph |-> None]
    /\ instances = [i \in Ids |-> NewInstance]

\* GraphController.init: _build_graph, _build_recorder, _build_tracer,
\* _collect_builtins, _collect_globals
IsoInit ==
    /\ AllIdle
    /\ \E i \in Ids :
          /\ ~instances[i].init
          /\ tracer_cls' = _build_tracer(tracer_cls, i)
          /\ nx_module' = [nx_module EXCEPT !.g_graph = Some(i)]
          /\ instances' = [instances EXCEPT
                ![i].init = TRUE,
                ![i].user_globals = Some([graph |-> i, g_graph |-> i])]
    /\ UNCHANGED <<recVars, clsVars, sbxVars, ctl, inpVars, trcVars, libVars>>

\* main of an initialized controller starts its runner
IsoMainStart ==
    /\ AllIdle
    /\ \E i \in Ids :
          /\ instances[i].init
          /\ instances[i].mains < MaxIsoMains
          /\ instances' = [instances EXCEPT ![i].pc = "run", ![i].tracer = None]
    /\ UNCHANGED <<recVars, clsVars, sbxVars, ctl, inpVars, tracer_cls, nx_module,
                   trcVars, libVars>>

\* the user code evaluates tracer(...): Tracer.__init__ takes the recorder of
\* the class (sight.py:224-231)
IsoCreateTracer ==
    /\ \E i \in Ids :
          /\ instances[i].pc = "run"
          /\ instances[i].tracer # tracer_cls._recorder
          /\ instances' = [instances EXCEPT ![i].tracer = tracer_cls._recorder]
    /\ UNCHANGED <<recVars, clsVars, sbxVars, ctl, inpVars, tracer_cls, nx_module,
                   trcVars, libVars>>

\* an event in the traced user code: Tracer.trace reads the source lines from
\* the class (sight.py:425-427) and appends a record to self.recorder
IsoTrace ==
    /\ TracedSoFar < MaxTraced
    /\ \E i \in Ids :
          /\ instances[i].pc = "run"
          /\ ~IsNone(instances[i].tracer)
          /\ LET r == Get(instances[i].tracer)
             IN instances' = [instances EXCEPT ![r]._recorder =
                   Append(@, [by |-> i,
                              source |-> Get(tracer_cls._additional_source)])]
    /\ UNCHANGED <<recVars, clsVars, sbxVars, ctl, inpVars, tracer_cls, nx_module,
                   trcVars, libVars>>

\* the user code reads a graph through one of the injected names
IsoRead ==
    /\ \E i \in Ids, name \in GraphNames :
          /\ instances[i].pc = "run"
          /\ LET value == IF name = "networkx.g_graph" THEN Get(nx_module.g_graph)
                          ELSE Get(instances[i].user_globals)[name]
             IN /\ <<name, value>> \notin instances[i].seen
                /\ instances' = [instances EXCEPT ![i].seen = @ \cup {<<name, value>>}]
    /\ UNCHANGED <<recVars, clsVars, sbxVars, ctl, inpVars, tracer_cls, nx_module,
                   trcVars, libVars>>

\* the runner ends and main returns
IsoMainEnd ==
    /\ \E i \in Ids :
          /\ instances[i].pc = "run"
          /\ instances' = [instances EXCEPT ![i].pc = "idle", ![i].mains = @ + 1]
    /\ UNCHANGED <<recVars, clsVars, sbxVars, ctl, inpVars, tracer_cls, nx_module,
                   trcVars, libVars>>

NextIsolation ==
    \/ IsoInit
    \/ IsoMainStart
    \/ IsoCreateTracer
    \/ IsoTrace
    \/ IsoRead
    \/ IsoMainEnd

SpecIsolation == InitIsolation /\ [][NextIsolation]_vars

\* ---- C16 ---------------------------------------------------------------
\* C16: for two controllers of one process, in any interleaving of their
\* init and main calls, a controller's recorder holds only records traced
\* while that controller ran, located in its own source, and its user code
\* sees its own graph through every injected name.
C16_Isolated ==
    \A i \in Ids :
        /\ \A k \in DOMAIN instances[i]._recorder :
              /\ instances[i]._recorder[k].by = i
              /\ instances[i]._recorder[k].source = i
        /\ \A obs \in instances[i].seen : obs[2] = i

\* ========================================================================
\* Tracer.trace on one traced frame, writing to the Recorder
\* (sight.py:383-559, recorder.py:205-469)
\* ========================================================================
MaxTraceOps == 6

\* the watched names in watch order, the objects they may be bound to, the
\* lines of the traced source and the texts a statement may print
Watch == <<"i", "j">>
TracerHeap == <<Scalar("int", "10"), Scalar("int", "11")>>
TracerValues == DOMAIN TracerHeap
TracerLines == {2, 3}
TracerTexts == {"a\n", "b\n", "c"}

\* Tracer.prefix: empty unless the tracer decorates a function
TracerPrefix == ""

\* utils.get_shortish_repr of a value (sight.py:46, 51)
value_repr(v) == TracerHeap[v].text

\* get_local_values (sight.py:24-56) with only_watch: the watched names bound
\* in the frame, each with the repr of its value
get_local_values(locals) == [name \in DOMAIN locals |-> value_repr(locals[name])]

\* `name not in old_local_reprs` or `old_local_reprs[name][1] != value_repr`
\* (sight.py:489, 501)
Newish(old_local_reprs, name) == name \notin DOMAIN old_local_reprs
Modified(old_local_reprs, local_reprs, name) ==
    /\ name \in DOMAIN old_local_reprs
    /\ old_local_reprs[name] # local_reprs[name]

\* the record a new or modified binding is written to (sight.py:489-508)
TargetIndex(chs, event, newish) ==
    IF newish
    THEN IF event = "call" \/ event = "return" THEN LastIndex(chs)
         ELSE SecondToLastIndex(chs)
    ELSE IF event = "return" THEN LastIndex(chs)
         ELSE SecondToLastIndex(chs)

\* the loop over local_reprs.items() (sight.py:485-511), from the n-th
\* watched name on; st holds the color mapping, the change list and the
\* <<name, record index>> pairs written so far
RECURSIVE NoteFrom(_, _, _, _, _)
NoteFrom(n, st, event, old_local_reprs, locals) ==
    IF n > Len(Watch) THEN st
    ELSE LET name == Watch[n]
         IN IF name \notin DOMAIN locals
            THEN NoteFrom(n + 1, st, event, old_local_reprs, locals)
            ELSE
            LET identifier_string == identifier_to_string(<<TracerPrefix, name>>)
                cm == assign_and_get_color(st.cm, identifier_string,
                                           CHOOSE d \in RandomDraws : TRUE)
                local_reprs == get_local_values(locals)
                newish == Newish(old_local_reprs, name)
                writes == newish \/ Modified(old_local_reprs, local_reprs, name)
                idx == TargetIndex(st.changes, event, newish)
                chs == IF writes
                       THEN [st.changes EXCEPT ![idx] =
                               SetVariable(@, identifier_string,
                                   process_variable_state(TracerHeap, cm,
                                       identifier_string, locals[name], {}, 1))]
                       ELSE st.changes
            IN NoteFrom(n + 1,
                        [cm |-> cm, changes |-> chs,
                         wrote |-> IF writes THEN st.wrote \cup {<<name, idx>>}
                                   ELSE st.wrote],
                        event, old_local_reprs, locals)

\* the events the frame may receive next
NextEvents(p) ==
    IF p.frame = "function"
    THEN IF p.live = "no" THEN {"call"}
         ELSE IF p.live = "called" THEN {"line"}
         ELSE {"line", "exception", "return"}
    ELSE IF p.live = "no" THEN {"line"}
    ELSE {"line", "exception"}

\* the line of the event: a return event carries the line the frame is at
EventLines(p, event) == IF event = "return" THEN {p.line} ELSE TracerLines

NoFrame == [frame |-> "none", live |-> "no", line |-> 0, opened |-> 0,
            printed |-> <<>>, closed |-> 0]

InitTracer ==
    /\ ClsIdle /\ SbxIdle /\ ctl = None /\ InpIdle /\ IsoIdle
    /\ RecIdle /\ LibIdle
    /\ frame_locals = EmptyDict
    /\ frame_to_local_reprs = EmptyDict
    /\ pending = NoFrame
    /\ traceLog = None

\* tracing starts: the user code enters `with tracer(...)` in a frame whose
\* watched names may be bound already (Tracer.__enter__, sight.py:340-353),
\* or calls a function decorated with tracer(...) (sight.py:302-310)
TraceStart ==
    /\ nOps < MaxTraceOps /\ nOps' = nOps + 1
    /\ pending.frame = "none"
    /\ \E kind \in {"with", "function"},
          bound \in {EmptyDict} \cup {[name \in {Watch[1]} |-> v] : v \in TracerValues} :
          /\ pending' = [pending EXCEPT !.frame = kind, !.live = "no"]
          /\ frame_locals' = bound
    /\ frame_to_local_reprs' = EmptyDict
    /\ lastOp' = "start"
    /\ UNCHANGED <<color_mapping, changes, final_changes, stdout_buf, stdout_cache,
                   returned, traceLog, clsVars, sbxVars, ctl, inpVars, isoVars,
                   libVars>>

\* Tracer.trace (sight.py:383-559) for an event of the traced frame
Trace ==
    /\ nOps < MaxTraceOps /\ nOps' = nOps + 1
    /\ pending.frame # "none"
    /\ \E event \in NextEvents(pending) :
       \E line_no \in EventLines(pending, event) :
          LET adds == ~(event = "return"
                        /\ line_no = changes[LastIndex(changes)].line)
              added == IF adds THEN Append(changes, EmptyRecord(line_no))
                       ELSE changes
              io == read_from_io(stdout_buf, stdout_cache)
              noted == [added EXCEPT ![SecondToLastIndex(added)].stdout = io[1]]
              old_local_reprs == frame_to_local_reprs
              st == NoteFrom(1, [cm |-> color_mapping, changes |-> noted,
                                 wrote |-> {}],
                             event, old_local_reprs, frame_locals)
          IN /\ changes' = st.changes
             /\ color_mapping' = st.cm
             /\ stdout_cache' = io[2]
             /\ frame_to_local_reprs' =
                   IF event = "return" THEN EmptyDict
                   ELSE get_local_values(frame_locals)
             /\ frame_locals' = IF event = "return" THEN EmptyDict ELSE frame_locals
             /\ pending' =
                   [frame |-> IF event = "return" THEN "none" ELSE pending.frame,
                    live |-> IF event = "return" THEN "no"
                             ELSE IF event = "call" THEN "called"
                             ELSE "running",
                    line |-> line_no,
                    opened |-> IF adds THEN Len(added) ELSE 0,
                    printed |-> IF adds THEN Append(pending.printed, "")
                                ELSE pending.printed,
                    closed |-> Len(changes)]
             /\ traceLog' = Some([event |-> event, line |-> line_no,
                                  current |-> Len(added), wrote |-> st.wrote,
                                  result |-> None])
    /\ lastOp' = "trace"
    /\ UNCHANGED <<final_changes, stdout_buf, returned, clsVars, sbxVars, ctl,
                   inpVars, isoVars, libVars>>

\* the statement the frame is at binds a watched name
TraceAssign ==
    /\ nOps < MaxTraceOps /\ nOps' = nOps + 1
    /\ pending.live = "running"
    /\ \E n \in DOMAIN Watch, v \in TracerValues :
          frame_locals' = DictSet(frame_locals, Watch[n], v)
    /\ lastOp' = "assign"
    /\ UNCHANGED <<color_mapping, changes, final_changes, stdout_buf, stdout_cache,
                   returned, frame_to_local_reprs, pending, traceLog,
                   clsVars, sbxVars, ctl, inpVars, isoVars, libVars>>

\* the user code prints: after an event that opened a record, during the
\* statement of that record
TracePrint ==
    /\ nOps < MaxTraceOps /\ nOps' = nOps + 1
    /\ \E text \in TracerTexts :
          /\ stdout_buf' = stdout_buf \o text
          /\ pending' = IF pending.opened = 0 THEN pending
                        ELSE [pending EXCEPT !.printed[pending.opened] = @ \o text]
    /\ lastOp' = "print"
    /\ UNCHANGED <<color_mapping, changes, final_changes, stdout_cache, returned,
                   frame_locals, frame_to_local_reprs, traceLog,
                   clsVars, sbxVars, ctl, inpVars, isoVars, libVars>>

\* the with block ends: Tracer.__exit__ (sight.py:355-373) follows the line
\* event of the with statement
TraceExit ==
    /\ nOps < MaxTraceOps /\ nOps' = nOps + 1
    /\ pending.frame = "with"
    /\ pending.live = "running"
    /\ lastOp = "trace"
    /\ pending' = [pending EXCEPT !.frame = "none", !.live = "no"]
    /\ frame_to_local_reprs' = EmptyDict
    /\ frame_locals' = EmptyDict
    /\ lastOp' = "exit"
    /\ UNCHANGED <<color_mapping, changes, final_changes, stdout_buf, stdout_cache,
                   returned, traceLog, clsVars, sbxVars, ctl, inpVars, isoVars,
                   libVars>>

\* the user code calls a function wrapped by Tracer.look_at (the injected
\* `peek`, sight.py:276-289): the function returns its result, the wrapper
\* notes it as an access of the last record and returns it; with no record
\* the note raises IndexError and nothing is returned
TracePeek ==
    /\ nOps < MaxTraceOps /\ nOps' = nOps + 1
    /\ \E result \in RecorderValues :
          /\ add_variable_access_to_last_record(result)
          /\ traceLog' = Some([event |-> "peek", line |-> 0,
                               current |-> Len(changes), wrote |-> {},
                               result |-> IF Len(changes) = 0 THEN None
                                          ELSE Some(result)])
    /\ UNCHANGED <<frame_locals, frame_to_local_reprs, pending,
                   clsVars, sbxVars, ctl, inpVars, isoVars, libVars>>

NextTracer ==
    \/ TraceStart
    \/ Trace
    \/ TraceAssign
    \/ TracePrint
    \/ TracePeek
    \/ TraceExit

SpecTracer == InitTracer /\ [][NextTracer]_vars

\* ---- C19 ---------------------------------------------------------------
\* the stdout delta of a record whose statement printed the text: the lines
\* of the text, absent when nothing was printed
ExpectedDelta(text) == IF text = "" THEN None ELSE Some(Readlines(text))

\* C19: once the next in-scope event has followed the event that opened
\* record k, the stdout delta of record k is what was printed in between,
\* and absent when nothing was printed.
C19_StdoutDelta ==
    pending # None
        => \A k \in 1..pending.closed :
              changes[k].stdout = ExpectedDelta(pending.printed[k])

\* ---- C20 ---------------------------------------------------------------
\* the watched bindings that are new or changed at an event
FreshBindings ==
    {name \in DOMAIN frame_locals :
        \/ name \notin DOMAIN frame_to_local_reprs
        \/ frame_to_local_reprs[name] # value_repr(frame_locals[name])}

\* C20: at each event every new or changed watched binding is written into
\* exactly one record: the current one for a call or a return, the record
\* before the current one for any other event; it carries the type tag and
\* the repr of the value.
C20_DiffPlacement ==
    [][(lastOp' = "trace" /\ nOps' = nOps + 1)
        => LET t == Get(traceLog')
               target == IF t.event \in {"call", "return"} THEN t.current
                         ELSE t.current - 1
           IN \A name \in FreshBindings :
                 /\ target \in DOMAIN changes'
                 /\ {w \in t.wrote : w[1] = name} = {<<name, target>>}
                 /\ LET key == identifier_to_string(<<TracerPrefix, name>>)
                        diff == changes'[target].variables
                    IN /\ ~IsNone(diff)
                       /\ key \in DOMAIN Get(diff)
                       /\ Get(diff)[key].type = "Number"
                       /\ Get(diff)[key].repr
                             = Some(TextRepr(value_repr(frame_locals[name])))]_vars

ReprFails(o) ==
    \/ o.cls \in {"BadRepr", "BadIter", "BadItems"}
    \/ o.cls = "Node" /\ o.text \notin RecorderGraph

\* C22: classifying a value never raises: when the representation of the
\* value fails (repr raises, iterating the container raises, a graph node is
\* not in the recorder's graph) the classification completes and its repr is
\* the placeholder string.
C22_ClassifyNeverRaises ==
    ~IsNone(classified) =>
        LET st == Get(classified).state
        IN /\ ~IsRaised(st)
           /\ ReprFails(heap[Get(classified).root])
                 => st.repr = Some(TextRepr(_BAD_REPR_STRING))

\* the case that is handled: repr() of the value raises
C22_ReprGuarded ==
    (~IsNone(classified) /\ heap[Get(classified).root].cls = "BadRepr")
        => /\ ~IsRaised(Get(classified).state)
           /\ Get(classified).state.repr = Some(TextRepr(_BAD_REPR_STRING))

\* ---- C23 ---------------------------------------------------------------
\* C23: a call made before any record has been opened does not raise: a
\* read of final_change_list with zero records returns a list (the init
\* snapshot alone), and noting a variable change, an access or a stdout delta
\* completes.
C23_NoRecordTolerated ==
    [][(nOps' = nOps + 1 /\ Len(changes) = 0 /\ Len(changes') = 0)
        => /\ lastOp' \notin {"note_last:IndexError", "note_prev:IndexError",
                              "access:IndexError", "stdout:IndexError",
                              "read:TypeError"}
           /\ IsRead(lastOp') => (~IsNone(returned') /\ Len(Get(returned')) = 1)]_vars

\* the part about reading: with zero records the read returns a list of one
\* entry, the init snapshot
C23_EmptyReadReturns ==
    (IsRead(lastOp) /\ Len(changes) = 0)
        => /\ ~IsNone(returned)
           /\ Len(Get(returned)) = 1
           /\ Get(returned)[1].line = 0

\* ---- C24 ---------------------------------------------------------------
\* C24 as stated: every Recorder operation leaves all records other than the
\* last one unchanged.
C24_EarlierRecordsFrozen ==
    [][\A i \in 1..(Len(changes) - 1) : changes'[i] = changes[i]]_vars

\* C24, amended: no record is removed and every Recorder operation leaves all
\* records before the last two unchanged; the second-to-last record is
\* written only by add_variable_change_to_second_to_last_record and
\* add_stdout_change, every other operation leaves all records other than
\* the last one unchanged.
C24_OnlyLastTwoWritten ==
    [][/\ Len(changes') >= Len(changes)
       /\ \A i \in 1..(Len(changes) - 2) : changes'[i] = changes[i]
       /\ lastOp' \notin {"note_prev", "stdout"}
             => \A i \in 1..(Len(changes) - 1) : changes'[i] = changes[i]]_vars

\* with three records, a variable change has been written into the second
\* one and the first one is as add_record made it
C24_Witness ==
    /\ Len(changes) = 3
    /\ lastOp = "note_prev"
    /\ ~IsNone(changes[2].variables)
    /\ changes[1] = EmptyRecord(changes[1].line)
    /\ changes[3] = EmptyRecord(changes[3].line)

\* ---- C29 ---------------------------------------------------------------
\* the init mapping overridden, in order, by the diffs of records 1..k
RECURSIVE Overridden(_, _, _)
Overridden(cm, chs, k) ==
    IF k = 0 THEN _init_result_object(cm).variables
    ELSE LET before == Overridden(cm, chs, k - 1)
             diff == chs[k].variables
         IN IF IsNone(diff) THEN before
            ELSE Some([key \in (IF IsNone(before) THEN {} ELSE DOMAIN Get(before))
                               \cup DOMAIN Get(diff) |->
                         IF key \in DOMAIN Get(diff) THEN Get(diff)[key]
                         ELSE Get(before)[key]])

\* snaps is the forward fold of the records chs: one snapshot per record
\* after the init snapshot, with the record's line, accesses and stdout, and
\* for a record that has a diff the mapping accumulated up to that record
IsForwardFold(snaps, chs, cm) ==
    /\ Len(snaps) = Len(chs) + 1
    /\ snaps[1] = _init_result_object(cm)
    /\ \A k \in 1..Len(chs) :
          /\ snaps[k + 1].line = chs[k].line
          /\ snaps[k + 1].accesses = chs[k].accesses
          /\ snaps[k + 1].stdout = chs[k].stdout
          /\ ~IsNone(chs[k].variables)
                => snaps[k + 1].variables = Overridden(cm, chs, k)

\* C29: the list a read of final_change_list returns is the forward fold of
\* the diffs of the change list: snapshot k+1 carries line, accesses and
\* stdout of record k and the init mapping overridden, in order, by the diffs
\* of records 1..k.
C29_ForwardFold ==
    IsRead(lastOp) => /\ ~IsNone(returned)
                      /\ IsForwardFold(Get(returned), changes, color_mapping)

\* the read that builds the list (nothing cached) returns the forward fold
\* and leaves the raw records as they were
C29_FirstReadFolds ==
    [][(IsRead(lastOp') /\ IsNone(final_changes) /\ nOps' = nOps + 1)
        => /\ ~IsNone(returned')
           /\ IsForwardFold(Get(returned'), changes, color_mapping)
           /\ changes' = changes]_vars

\* ---- C30 ---------------------------------------------------------------
RECURSIVE ConcatLines(_)
ConcatLines(lines) ==
    IF Len(lines) = 0 THEN "" ELSE Head(lines) \o ConcatLines(Tail(lines))

\* the stdout deltas of the records, concatenated in record order
RECURSIVE ConcatDeltas(_)
ConcatDeltas(chs) ==
    IF Len(chs) = 0 THEN ""
    ELSE ConcatDeltas(SubSeq(chs, 1, Len(chs) - 1))
         \o (IF IsNone(chs[Len(chs)].stdout) THEN ""
             ELSE ConcatLines(Get(chs[Len(chs)].stdout)))

\* C30: after every in-scope event the stdout deltas of the records,
\* concatenated in record order, are the output captured so far (a line not
\* yet terminated included), and the event leaves every delta that a record
\* already holds as it was.
C30_OutputPreserved ==
    [][(lastOp' = "trace" /\ nOps' = nOps + 1)
        => /\ ConcatDeltas(changes') = stdout_buf'
           /\ \A k \in 1..Len(changes) :
                 ~IsNone(changes[k].stdout) => changes'[k].stdout = changes[k].stdout]_vars

\* ========================================================================
\* SpecTruncate: seeker.utils.truncate over short strings (seeker/utils.py)
\* ========================================================================
MaxStrLen == 6
MaxTruncLen == 6
Alphabet == {"a", "b"}

RECURSIVE StringsUpTo(_)
StringsUpTo(n) ==
    IF n = 0 THEN {""}
    ELSE LET shorter == StringsUpTo(n - 1)
         IN shorter \cup {s \o c : s \in shorter, c \in Alphabet}

Min(a, b) == IF a <= b THEN a ELSE b
Max(a, b) == IF a >= b THEN a ELSE b

\* Python's string[:k] and string[k:] for any integer k: a negative k counts
\* from the end, and -0 is 0
SliceTo(string, k) ==
    IF k >= 0 THEN SubSeq(string, 1, Min(k, Len(string)))
    ELSE SubSeq(string, 1, Max(Len(string) + k, 0))
SliceFrom(string, k) ==
    IF k >= 0 THEN SubSeq(string, Min(k, Len(string)) + 1, Len(string))
    ELSE SubSeq(string, Max(Len(string) + k, 0) + 1, Len(string))

\* truncate (seeker/utils.py:90-96); // rounds towards minus infinity
truncate(string, max_length) ==
    IF Len(string) <= max_length THEN string
    ELSE LET left == (max_length - 3) \div 2
             right == max_length - 3 - left
         IN SliceTo(string, left) \o "..." \o SliceFrom(string, 0 - right)

InitTruncate ==
    /\ RecIdle /\ ClsIdle /\ SbxIdle /\ CtlIdle /\ ThrIdle
    /\ fn_input \in {Some([string |-> s, max_length |-> n]) :
                        s \in StringsUpTo(MaxStrLen), n \in 1..MaxTruncLen}
    /\ fn_output = None

Truncate ==
    /\ fn_output = None
    /\ fn_output' = Some(truncate(Get(fn_input).string, Get(fn_input).max_length))
    /\ UNCHANGED <<fn_input, thrVars, recVars, clsVars, sbxVars, ctlVars>>

NextTruncate == Truncate

SpecTruncate == InitTruncate /\ [][NextTruncate]_vars

\* ---- C26 ---------------------------------------------------------------
\* r is a prefix of s, the marker and a suffix of s
IsElided(r, s) ==
    \E l \in 0..Len(s) : \E t \in 0..Len(s) :
        r = SubSeq(s, 1, l) \o "..." \o SubSeq(s, Len(s) - t + 1, Len(s))

\* C26: for every string s and every positive n, truncate(s, n) has at most
\* n characters: it is s when len(s) <= n, and otherwise a prefix of s, the
\* marker '...' and a suffix of s, n characters in all.
C26_TruncateBounded ==
    ~IsNone(fn_output) =>
        LET s == Get(fn_input).string
            n == Get(fn_input).max_length
            r == Get(fn_output)
        IN /\ Len(r) <= n
           /\ Len(s) <= n => r = s
           /\ Len(s) > n => (Len(r) = n /\ IsElided(r, s))

\* the same for a maximum length that leaves room for the marker
C26_BoundedFromFour ==
    (~IsNone(fn_output) /\ Get(fn_input).max_length >= 4) =>
        LET s == Get(fn_input).string
            n == Get(fn_input).max_length
            r == Get(fn_output)
        IN /\ Len(r) <= n
           /\ Len(s) <= n => r = s
           /\ Len(s) > n => (Len(r) = n /\ IsElided(r, s))

\* ========================================================================
\* SpecGraphology: export_to_graphology and import_from_graphology over
\* small undirected simple graphs (graphology_helper.py)
\* ========================================================================
MaxGraphNodes == 2
NodeNames == SubSeq(<<"a", "b", "c", "d">>, 1, MaxGraphNodes)
DEFAULT_NODE_SIZE == 15
DEFAULT_EDGE_SIZE == 5

\* attribute dicts: functions from attribute names to values
Dict1(k, v) == [x \in {k} |-> v]
DictUpdate(d, upd) ==
    [k \in (DOMAIN d) \cup (DOMAIN upd) |-> IF k \in DOMAIN upd THEN upd[k] ELSE d[k]]

\* The attributes a node of an input graph carries: a graphology key or
\* none, a size or none, a position or none. An edge carries a size, a key
\* or nothing.
NodeAttrChoices ==
    {DictUpdate(DictUpdate(k, s), p) :
        k \in {EmptyDict, Dict1("key", "a"), Dict1("key", "k")},
        s \in {EmptyDict, Dict1("size", 7)},
        p \in {EmptyDict, DictUpdate(Dict1("x", 1), Dict1("y", 1))}}
EdgeAttrChoices == {EmptyDict, Dict1("size", 7), Dict1("key", "e")}

\* An undirected simple graph: nodes, their attributes, edges as sets of two
\* distinct nodes, and the attributes of the edges.
PairsOf(nodes) == {{s, t} : s \in nodes, t \in nodes} \ {{n} : n \in nodes}
GraphsOver(names) ==
    UNION {UNION {{[nodes |-> nodes, attr |-> attr, edges |-> edges, eattr |-> eattr] :
                      attr \in [nodes -> NodeAttrChoices],
                      eattr \in [edges -> EdgeAttrChoices]} :
                  edges \in SUBSET PairsOf(nodes)} :
           nodes \in SUBSET names}

\* position of a node in the graph's node order
NodeIndex(n) == CHOOSE i \in DOMAIN NodeNames : NodeNames[i] = n

\* the end of an edge that comes first in the node order, and the other one:
\* graph.edges() reports each edge once, from the node seen first
Source(e) == CHOOSE s \in e : \A t \in e : NodeIndex(s) <= NodeIndex(t)
Target(e) == CHOOSE t \in e : t # Source(e)

\* run_layout_fn (graphology_helper.py:33-39): the layout gives every node a
\* position, replacing the one it has
run_layout_fn(graph) ==
    [graph EXCEPT !.attr = [n \in graph.nodes |->
        DictUpdate(graph.attr[n],
                   DictUpdate(Dict1("x", NodeIndex(n)), Dict1("y", 0)))]]

\* make_edge_label (graphology_helper.py:42-47); export_to_graphology passes
\* graph.is_directed() in the place of k
make_edge_label(s, t, k, is_directed) ==
    LET link_type == IF is_directed THEN "->" ELSE "-"
    IN IF k = "None" THEN s \o link_type \o t
       ELSE s \o link_type \o t \o " (" \o k \o ")"

\* attrs.get(name, None) or default
GetOr(attrs, name, default, falsy) ==
    IF name \in DOMAIN attrs /\ attrs[name] # falsy THEN attrs[name] ELSE default

\* node_key = attrs.get(_KEY_ATTR_NAME, None) or node (graphology_helper.py:75)
NodeKey(attrs, node) == GetOr(attrs, "key", node, "")

\* export_to_graphology (graphology_helper.py:50-127) of an undirected simple
\* graph: the graph as the export leaves it (labels, sizes and positions are
\* written into it) and the data exported
export_to_graphology(graph) ==
    LET laid == IF \E n \in graph.nodes :
                      "x" \notin DOMAIN graph.attr[n] \/ "y" \notin DOMAIN graph.attr[n]
                THEN run_layout_fn(graph) ELSE graph
        nattr == [n \in laid.nodes |->
                    DictUpdate(laid.attr[n],
                        DictUpdate(Dict1("label", NodeKey(laid.attr[n], n)),
                                   Dict1("size", GetOr(laid.attr[n], "size",
                                                       DEFAULT_NODE_SIZE, 0))))]
        eattr == [e \in laid.edges |->
                    DictUpdate(laid.eattr[e],
                        DictUpdate(Dict1("label",
                                         make_edge_label(Source(e), Target(e), "False", FALSE)),
                                   Dict1("size", GetOr(laid.eattr[e], "size",
                                                       DEFAULT_EDGE_SIZE, 0))))]
    IN [graph |-> [laid EXCEPT !.attr = nattr, !.eattr = eattr],
        data |-> [nodes |-> {[key |-> NodeKey(laid.attr[n], n), attributes |-> nattr[n],
                              at |-> NodeIndex(n)] : n \in laid.nodes},
                  edges |-> {[key |-> eattr[e]["label"], source |-> Source(e),
                              target |-> Target(e), attributes |-> eattr[e]] :
                                e \in laid.edges}]]

\* Graph.add_node(key, **attributes) for the exported nodes in their order:
\* a key met again updates the node it names
RECURSIVE AddNodes(_, _)
AddNodes(entries, graph) ==
    IF entries = {} THEN graph
    ELSE LET last == CHOOSE e \in entries : \A o \in entries : o.at <= e.at
             g == AddNodes(entries \ {last}, graph)
             old == IF last.key \in g.nodes THEN g.attr[last.key] ELSE EmptyDict
         IN [g EXCEPT !.nodes = @ \cup {last.key},
                      !.attr = [n \in g.nodes \cup {last.key} |->
                                   IF n = last.key THEN DictUpdate(old, last.attributes)
                                   ELSE g.attr[n]]]

\* Graph.add_edge(source, target, key=..., **attributes, undirected=None) for
\* the exported edges: nodes that are not in the graph are added
AddEdges(entries, graph) ==
    LET ends == UNION {{e.source, e.target} : e \in entries}
    IN [nodes |-> graph.nodes \cup ends,
        attr |-> [n \in graph.nodes \cup ends |->
                     IF n \in graph.nodes THEN graph.attr[n] ELSE EmptyDict],
        edges |-> {{e.source, e.target} : e \in entries},
        eattr |-> [p \in {{e.source, e.target} : e \in entries} |->
                     LET e == CHOOSE x \in entries : {x.source, x.target} = p
                     IN DictUpdate(e.attributes, Dict1("key", e.key))]]

EmptyGraph == [nodes |-> {}, attr |-> EmptyDict, edges |-> {}, eattr |-> EmptyDict]

\* import_from_graphology (graphology_helper.py:130-182) of exported data: a
\* keyword given twice (an attribute named key or undirected next to the
\* key= and undirected= arguments of add_edge) is a TypeError
import_from_graphology(data) ==
    IF \E e \in data.edges : {"key", "undirected"} \cap DOMAIN e.attributes # {}
    THEN [raised |-> "TypeError", graph |-> EmptyGraph]
    ELSE [raised |-> "", graph |-> AddEdges(data.edges, AddNodes(data.nodes, EmptyGraph))]

InitGraphology ==
    /\ RecIdle /\ ClsIdle /\ SbxIdle /\ CtlIdle /\ ThrIdle
    /\ fn_input \in {Some(g) : g \in GraphsOver(Range(NodeNames))}
    /\ fn_output = None

\* result = import_from_graphology(export_to_graphology(g))
RoundTrip ==
    /\ fn_output = None
    /\ LET exported == export_to_graphology(Get(fn_input))
           imported == import_from_graphology(exported.data)
       IN fn_output' = Some([g |-> exported.graph,
                             raised |-> imported.raised,
                             result |-> imported.graph])
    /\ UNCHANGED <<fn_input, thrVars, recVars, clsVars, sbxVars, ctlVars>>

NextGraphology == RoundTrip

SpecGraphology == InitGraphology /\ [][NextGraphology]_vars

\* ---- C27 ---------------------------------------------------------------
\* result has the nodes and the edges of g, and every node of g carries in
\* result the attributes it has in g after the export
SameGraph(result, g) ==
    /\ result.nodes = g.nodes
    /\ result.edges = g.edges
    /\ \A n \in g.nodes : n \in result.nodes /\ result.attr[n] = g.attr[n]

\* C27: for every undirected simple graph g, the graph imported from the
\* export of g has the node set and the edge set of g, and every node
\* carries the attributes of the corresponding node of g after the export.
C27_RoundTrip ==
    ~IsNone(fn_output) =>
        /\ Get(fn_output).raised = ""
        /\ SameGraph(Get(fn_output).result, Get(fn_output).g)

\* the same for graphs in which no node and no edge has an attribute named key
C27_RoundTripWithoutKeys ==
    (/\ ~IsNone(fn_output)
     /\ \A n \in Get(fn_input).nodes : "key" \notin DOMAIN Get(fn_input).attr[n]
     /\ \A e \in Get(fn_input).edges : "key" \notin DOMAIN Get(fn_input).eattr[e])
        => /\ Get(fn_output).raised = ""
           /\ SameGraph(Get(fn_output).result, Get(fn_output).g)

\* ========================================================================
\* SpecServer: ExecutorWSGIServer.application on one request
\* (server_utils/main_functions.py, server_utils/tools.py)
\* ========================================================================
\* exception classes and their bases, up to Exception
Bases(cls) ==
    CASE cls = "ExecutionError" -> {"ExecutionError", "ValueError", "Exception"}
      [] cls = "ArgumentError"  -> {"ArgumentError", "ValueError", "Exception"}
      [] cls = "ServerError"    -> {"ServerError", "Exception"}
      [] cls = "ValueError"     -> {"ValueError", "Exception"}
      [] cls = "KeyError"       -> {"KeyError", "Exception"}

Returns(value) == [raised |-> "", text |-> value]
Raises(cls, text) == [raised |-> cls, text |-> text]

\* what the executor subprocess does on a POST /run
SubprocessOutcomes == {"no_program", "timeout", "empty", "bad_json", "ok"}

Requests ==
    [HTTP_ORIGIN : {"", "127.0.0.1", "other.org"},
     REQUEST_METHOD : {"GET", "POST", "PUT"},
     PATH_INFO : {"/env", "/run", "/"},
     CONTENT_LENGTH : {"", "2"},
     subprocess : SubprocessOutcomes]

ServerSettings ==
    [ALLOW_OTHER_ORIGIN : BOOLEAN,
     ACCEPTED_ORIGINS : {<<>>, <<"127.0.0.1">>},
     IS_LOCAL : BOOLEAN]

\* execute (main_functions.py:152-198) with _subprocess_command (134-149)
execute(environ) ==
    CASE environ.subprocess = "no_program" ->
            Raises("ServerError", "Cannot find executor program in system path")
      [] environ.subprocess = "timeout" ->
            Raises("ExecutionError", "Error happened during execution subprocess.")
      [] environ.subprocess = "empty" ->
            Raises("ExecutionError", "Empty execution result.")
      [] environ.subprocess = "bad_json" ->
            Raises("ExecutionError", "Cannot unload execution subprocess result.")
      [] environ.subprocess = "ok" -> Returns("result")

\* do_get (main_functions.py:108-119)
do_get(settings, environ) ==
    IF environ.PATH_INFO = "/env"
    THEN IF settings.IS_LOCAL THEN Returns("environ")
         ELSE Raises("ArgumentError", "Bad Request: Cannot access ENV")
    ELSE Raises("ArgumentError", "Bad Request: Cannot access " \o environ.PATH_INFO
                                 \o " with method GET")

\* do_post (main_functions.py:121-132): int(environ["CONTENT_LENGTH"]) first
do_post(settings, environ) ==
    IF environ.PATH_INFO = "/run"
    THEN IF environ.CONTENT_LENGTH = "" THEN Raises("KeyError", "'CONTENT_LENGTH'")
         ELSE execute(environ)
    ELSE Raises("ArgumentError", "Bad Request: Cannot access " \o environ.PATH_INFO
                                 \o " with method POST")

\* application_helper (main_functions.py:97-106)
application_helper(settings, environ) ==
    CASE environ.REQUEST_METHOD = "GET" -> do_get(settings, environ)
      [] environ.REQUEST_METHOD = "POST" -> do_post(settings, environ)
      [] OTHER -> Raises("ArgumentError", "Bad Request: Unsupported Method "
                                          \o environ.REQUEST_METHOD \o ".")

\* mutant of ExceptClauses: the clause for Exception comes first
ExceptClauses_exceptionFirst ==
    << <<"Exception", "An unknown exception occurs in the server. Error: ">>,
       <<"ExecutionError", "Something wrong happens in you're code. Details: ">>,
       <<"ArgumentError", "Wrong argument is passed. Error: ">>,
       <<"ServerError", "Something wrong happens to the server. Please contact the website admin. Error: ">> >>

\* the except clauses of application in their order (main_functions.py:72-91):
\* <<class caught, start of the message>>
ExceptClauses ==
    << <<"ExecutionError", "Something wrong happens in you're code. Details: ">>,
       <<"ArgumentError", "Wrong argument is passed. Error: ">>,
       <<"ServerError", "Something wrong happens to the server. Please contact the website admin. Error: ">>,
       <<"Exception", "An unknown exception occurs in the server. Error: ">> >>

\* the message of the first clause that catches an exception of class cls
ErrorMessage(cls, text) ==
    LET hits == {i \in DOMAIN ExceptClauses : ExceptClauses[i][1] \in Bases(cls)}
        first == CHOOSE i \in hits : \A j \in hits : i <= j
    IN ExceptClauses[first][2] \o text

\* application (main_functions.py:57-95): the origin check (both names are
\* read from ACCEPTED_ORIGINS), the handler inside try/except, one call of
\* start_response, the body of ServerResultFormatter.format_server_result
application(settings, environ) ==
    LET origin == environ.HTTP_ORIGIN
        allow_other_origin == settings.ACCEPTED_ORIGINS # <<>>
        accepted_origin == settings.ACCEPTED_ORIGINS
        rejected == ~allow_other_origin /\ origin \notin Range(accepted_origin)
        outcome == application_helper(settings, environ)
    IN [start_response |-> <<"200 OK">>,
        handler |-> IF rejected THEN "not called"
                    ELSE IF outcome.raised = "" THEN "returned" ELSE outcome.raised,
        errors |-> IF rejected
                   THEN Some("The ORIGIN, " \o origin \o ", is not accepted.")
                   ELSE IF outcome.raised # ""
                   THEN Some(ErrorMessage(outcome.raised, outcome.text))
                   ELSE None,
        info |-> IF ~rejected /\ outcome.raised = "" THEN Some(outcome.text) ELSE None]

InitServer ==
    /\ RecIdle /\ ClsIdle /\ SbxIdle /\ CtlIdle /\ ThrIdle
    /\ fn_input \in {Some([settings |-> s, environ |-> e]) :
                        s \in ServerSettings, e \in Requests}
    /\ fn_output = None

Application ==
    /\ fn_output = None
    /\ fn_output' = Some(application(Get(fn_input).settings, Get(fn_input).environ))
    /\ UNCHANGED <<fn_input, thrVars, recVars, clsVars, sbxVars, ctlVars>>

NextServer == Application

SpecServer == InitServer /\ [][NextServer]_vars

\* ---- C28 ---------------------------------------------------------------
\* the start of the message the claim gives for an exception class
ClaimedMessage(cls) ==
    CASE cls = "ExecutionError" -> "Something wrong happens in you're code"
      [] cls = "ArgumentError" -> "Wrong argument is passed"
      [] cls = "ServerError" -> "Something wrong happens to the server"
      [] OTHER -> "An unknown exception occurs in the server"

\* start_response was called once with 200 OK, and when the handler raised
\* the error message starts as the claim says for the exception class
AnsweredByClass(r) ==
    /\ r.start_response = <<"200 OK">>
    /\ (r.handler \notin {"not called", "returned"})
          => /\ ~IsNone(r.errors)
             /\ StartsWith(Get(r.errors), ClaimedMessage(r.handler))
             /\ IsNone(r.info)
    /\ r.handler = "returned" => (IsNone(r.errors) /\ ~IsNone(r.info))

MaxNest == 2
MaxDepth == 1
MaxThreadOps == 7
Threads == {1, 2}
Tracers == {"A", "B"}
Frames == {1, 2}

\* the trace function a thread has before any Tracer is entered: none on
\* thread 1, the one of a debugger on thread 2
InitialHook == [t \in Threads |-> IF t = 1 THEN "none" ELSE "debugger"]

\* mutant of StackKey: one stack per tracer, shared by the threads
StackKey_shared(tracer, thread) == <<tracer, 0>>

\* self.thread_local = threading.local() (sight.py:214): every thread sees a
\* stack of its own in every Tracer
StackKey(tracer, thread) == <<tracer, thread>>

SavedStack(stacks, tracer, thread) == stacks[StackKey(tracer, thread)]

InitThreads ==
    /\ RecIdle /\ ClsIdle /\ SbxIdle /\ CtlIdle /\ FnIdle
    /\ thr_hook = InitialHook
    /\ thr_depth = [t \in Threads |-> None]
    /\ thr_stacks = [k \in Tracers \X (Threads \cup {0}) |-> <<>>]
    /\ start_times = [x \in Tracers |-> {}]
    /\ thr_scopes = [t \in Threads |-> <<>>]
    /\ thr_log = [thread |-> 0, op |-> "init", raised |-> "", steps |-> 0]

ThreadBudget == thr_log.steps < MaxThreadOps

\* `with tracer:` entered on thread t in frame f: Tracer.__enter__
\* (sight.py:340-353)
Enter(t, x, f) ==
    /\ ThreadBudget
    /\ Len(thr_scopes[t]) < MaxNest
    /\ thr_depth' = [thr_depth EXCEPT ![t] = IF IsNone(@) THEN Some(0 - 1) ELSE @]
    /\ thr_stacks' = [thr_stacks EXCEPT ![StackKey(x, t)] = Append(@, thr_hook[t])]
    /\ start_times' = [start_times EXCEPT ![x] = @ \cup {<<t, f>>}]
    /\ thr_hook' = [thr_hook EXCEPT ![t] = x]
    /\ thr_scopes' = [thr_scopes EXCEPT ![t] =
                         Append(@, [tracer |-> x, frame |-> f, before |-> thr_hook[t]])]
    /\ thr_log' = [thread |-> t, op |-> "enter", raised |-> "",
                   steps |-> thr_log.steps + 1]
    /\ UNCHANGED <<fnVars, recVars, clsVars, sbxVars, ctlVars>>

\* the innermost with block of thread t ends: Tracer.__exit__
\* (sight.py:355-372); the hook is restored before start_times is popped,
\* which raises KeyError when the frame's key is gone
Exit(t) ==
    /\ ThreadBudget
    /\ Len(thr_scopes[t]) > 0
    /\ LET top == thr_scopes[t][Len(thr_scopes[t])]
           x == top.tracer
           stack == SavedStack(thr_stacks, x, t)
       IN /\ thr_scopes' = [thr_scopes EXCEPT ![t] = SubSeq(@, 1, Len(@) - 1)]
          /\ IF Len(stack) = 0
             THEN /\ thr_log' = [thread |-> t, op |-> "exit", raised |-> "IndexError",
                                 steps |-> thr_log.steps + 1]
                  /\ UNCHANGED <<thr_hook, thr_stacks, start_times>>
             ELSE /\ thr_hook' = [thr_hook EXCEPT ![t] = stack[Len(stack)]]
                  /\ thr_stacks' = [thr_stacks EXCEPT ![StackKey(x, t)] =
                                       SubSeq(@, 1, Len(@) - 1)]
                  /\ start_times' = [start_times EXCEPT ![x] = @ \ {<<t, top.frame>>}]
                  /\ thr_log' = [thread |-> t, op |-> "exit",
                                 raised |-> IF <<t, top.frame>> \in start_times[x]
                                            THEN "" ELSE "KeyError",
                                 steps |-> thr_log.steps + 1]
    /\ UNCHANGED <<thr_depth, fnVars, recVars, clsVars, sbxVars, ctlVars>>

\* a call or a return event of a traced frame on thread t, whose trace
\* function is a Tracer's: thread_global.depth += 1 (sight.py:413-414) and
\* thread_global.depth -= 1 (sight.py:540)
TraceEvent(t, event) ==
    /\ ThreadBudget
    /\ thr_hook[t] \in Tracers
    /\ IF event = "call" THEN Get(thr_depth[t]) < MaxDepth
       ELSE Get(thr_depth[t]) > 0 - 1
    /\ thr_depth' = [thr_depth EXCEPT ![t] =
                        Some(Get(@) + (IF event = "call" THEN 1 ELSE 0 - 1))]
    /\ thr_log' = [thread |-> t, op |-> event, raised |-> "",
                   steps |-> thr_log.steps + 1]
    /\ UNCHANGED <<thr_hook, thr_stacks, start_times, thr_scopes,
                   fnVars, recVars, clsVars, sbxVars, ctlVars>>

NextThreads ==
    \/ \E t \in Threads, x \in Tracers, f \in Frames : Enter(t, x, f)
    \/ \E t \in Threads : Exit(t)
    \/ \E t \in Threads, event \in {"call", "return"} : TraceEvent(t, event)

SpecThreads == InitThreads /\ [][NextThreads]_vars

\* ---- C25 ---------------------------------------------------------------
\* C25: when the with block a thread is in ends, the thread's trace hook is
\* the one that was installed before that block was entered, so outside all
\* blocks it is the one from before the outermost __enter__; and a step of
\* one thread (enter, exit, trace event) leaves the depth counter and the
\* saved-hook stacks the other threads see as they were.
C25_ReentrantAndThreadLocal ==
    /\ [](\A t \in Threads : thr_scopes[t] = <<>> => thr_hook[t] = InitialHook[t])
    /\ [][LET t == thr_log'.thread
          IN /\ thr_log'.op = "exit"
                   => thr_hook'[t] = thr_scopes[t][Len(thr_scopes[t])].before
             /\ \A u \in Threads \ {t} :
                   /\ thr_depth'[u] = thr_depth[u]
                   /\ thr_hook'[u] = thr_hook[u]
                   /\ \A x \in Tracers :
                         SavedStack(thr_stacks', x, u) = SavedStack(thr_stacks, x, u)]_vars

\* both threads have been inside blocks of the same tracer, thread 1 nested
\* in two of them, and both are outside all blocks again
C25_Witness ==
    /\ thr_log.op = "exit"
    /\ thr_log.steps >= 6
    /\ \A t \in Threads : thr_scopes[t] = <<>> /\ ~IsNone(thr_depth[t])
    /\ thr_hook = InitialHook

\* ========================================================================
\* SpecFrames: Tracer.trace (sight.py:383-559) over the activation records
\* of a program: the module frame inside `with tracer(...)`, calls of
\* decorated and undecorated functions, recursion, generators
\* ========================================================================
MaxFrames == 4
MaxFrameOps == 7
MaxScopeOps == 6
FrameIds == 1..MaxFrames
Depths == {1, 2, 3}

\* the code units: the module, a decorated function, a decorated generator
\* function, an undecorated function, a function of the tracer's own file
Codes == {"module", "f", "gen", "g", "sight"}
Callable == Codes \ {"module"}

\* Tracer.target_codes after `@tracer` decorated f and gen (sight.py:303)
target_codes == {"f", "gen"}

\* line of the def statement of a function
DefLine(code) == 1

NoActivation == [code |-> "", back |-> 0, line |-> 0, status |-> "free",
                 f_trace |-> FALSE, seen |-> EmptyDict]

\* Tracer._is_internal_frame (sight.py:375-377)
_is_internal_frame(fr) == fr.code = "sight"

\* `frame.f_code in self.target_codes or frame in self.target_frames`
\* (sight.py:391, 405-408)
IsTarget(p, f) == p.frames[f].code \in target_codes \/ f \in p.target_frames

\* mutant of DepthRange: the loop runs once more
DepthRange_inclusive(depth) == 1..depth

\* range(1, self.depth) (sight.py:402)
DepthRange(depth) == 1..(depth - 1)

\* the for loop of sight.py:401-411 at its i-th iteration: TRUE when it
\* breaks, FALSE when it returns None
RECURSIVE AncestorLoop(_, _, _)
AncestorLoop(p, _frame_candidate, i) ==
    IF i \notin DepthRange(p.depth) THEN FALSE
    ELSE LET back == p.frames[_frame_candidate].back
         IN IF back = 0 THEN FALSE
            ELSE IF IsTarget(p, back) THEN TRUE
            ELSE AncestorLoop(p, back, i + 1)

\* the scope check of Tracer.trace (sight.py:391-411): FALSE when trace
\* returns None there
PassesScopeCheck(p, f) ==
    IF IsTarget(p, f) THEN TRUE
    ELSE IF p.depth = 1 THEN FALSE
    ELSE IF _is_internal_frame(p.frames[f]) THEN FALSE
    ELSE AncestorLoop(p, f, 1)

\* self.frame_to_local_reprs.get(frame, {}) (sight.py:474)
OldLocalReprs(f) ==
    IF f \in DOMAIN frame_to_local_reprs THEN frame_to_local_reprs[f]
    ELSE EmptyDict

DictPop(d, k) == [x \in (DOMAIN d) \ {k} |-> d[x]]

\* Tracer.trace(frame, event, arg) (sight.py:383-559): the values of the
\* Recorder's and the Tracer's fields after the call, and what it returned
trace(p, f, event, line_no, locals) ==
    IF ~PassesScopeCheck(p, f)
    THEN [returned |-> "None", cm |-> color_mapping, changes |-> changes,
          cache |-> stdout_cache, reprs |-> frame_to_local_reprs,
          depth |-> thr_depth, wrote |-> {}, current |-> Len(changes)]
    ELSE LET adds == ~(event = "return"
                       /\ line_no = changes[LastIndex(changes)].line)
             added == IF adds THEN Append(changes, EmptyRecord(line_no))
                      ELSE changes
             io == read_from_io(stdout_buf, stdout_cache)
             noted == [added EXCEPT ![SecondToLastIndex(added)].stdout = io[1]]
             st == NoteFrom(1, [cm |-> color_mapping, changes |-> noted,
                                wrote |-> {}],
                            event, OldLocalReprs(f), locals)
             called == IF event = "call" THEN Get(thr_depth[1]) + 1
                       ELSE Get(thr_depth[1])
         IN [returned |-> "self.trace", cm |-> st.cm, changes |-> st.changes,
             cache |-> io[2],
             reprs |-> IF event = "return" THEN DictPop(frame_to_local_reprs, f)
                       ELSE DictSet(frame_to_local_reprs, f,
                                    get_local_values(locals)),
             depth |-> [thr_depth EXCEPT ![1] =
                          Some(IF event = "return" THEN called - 1 ELSE called)],
             wrote |-> st.wrote, current |-> Len(added)]

Top(p) == p.stack[Len(p.stack)]

\* a frame whose f_trace is set gets a line event before its next statement
\* runs; a frame without f_trace runs unobserved
\* what the hook saw of a frame's bindings at the frame's last event; kept
\* for the properties, the program does not read it
SeenAfter(r, seen, locals) ==
    IF r.returned # "None" THEN get_local_values(locals) ELSE seen

StatusAfter(hook, event) ==
    IF hook # "None" /\ event = "call" THEN "called" ELSE "running"
Running(p) == p.frames[Top(p)].status = "running"
FreeFrames(p) == {f \in FrameIds : p.frames[f].status = "free"}

\* the fields of Recorder and Tracer after a call of trace; the log keeps
\* the snapshot the frame had before
Traced(r, f, event, line_no, locals) ==
    /\ color_mapping' = r.cm
    /\ changes' = r.changes
    /\ stdout_cache' = r.cache
    /\ frame_to_local_reprs' = r.reprs
    /\ thr_depth' = r.depth
    /\ traceLog' = Some([frame |-> f, event |-> event, line |-> line_no,
                         returned |-> r.returned, wrote |-> r.wrote,
                         current |-> r.current, old |-> OldLocalReprs(f),
                         locals |-> locals])

NotTraced ==
    /\ traceLog' = None
    /\ UNCHANGED <<color_mapping, changes, stdout_cache, frame_to_local_reprs,
                   thr_depth>>

FrameRest == <<final_changes, stdout_buf, returned, clsVars, sbxVars, ctl,
               inpVars, isoVars, fnVars, thr_hook, thr_stacks, start_times,
               thr_scopes, thr_log>>

\* the module frame has entered `with tracer(...)`: Tracer.__enter__ put it
\* into target_frames, set its f_trace, set the depth counter and installed
\* the hook (sight.py:344-353); the first statement of the block is next
InitProgram(codes, values, depths, budget) ==
    /\ ClsIdle /\ SbxIdle /\ ctl = None /\ InpIdle /\ IsoIdle /\ FnIdle
    /\ RecIdle
    /\ thr_hook = None /\ thr_stacks = None /\ start_times = None
    /\ thr_scopes = None /\ thr_log = None
    /\ thr_depth = [t \in {1} |-> Some(0 - 1)]
    /\ \E depth \in depths :
          pending = [depth |-> depth, stack |-> <<1>>, target_frames |-> {1},
                     codes |-> codes, values |-> values, budget |-> budget,
                     frames |-> [f \in FrameIds |->
                                   IF f = 1
                                   THEN [code |-> "module", back |-> 0, line |-> 0,
                                         status |-> "called", f_trace |-> TRUE,
                                         seen |-> EmptyDict]
                                   ELSE NoActivation]]
    /\ frame_locals = [f \in FrameIds |-> EmptyDict]
    /\ frame_to_local_reprs = EmptyDict
    /\ traceLog = None

\* a program that calls the decorated functions, traced with the default
\* depth (sight.py:178)
InitFrames == InitProgram(target_codes, TracerValues, {1}, MaxFrameOps)

\* a program that calls decorated, undecorated and tracer-internal
\* functions, traced with a depth of 1, 2 or 3
InitScope == InitProgram(Callable, {1}, Depths, MaxScopeOps)

FrameBudget == nOps < pending.budget /\ nOps' = nOps + 1

\* the running frame calls a function with a value for its parameter (for
\* a generator function: the first next() of the generator it made): the
\* hook gets the call event of the new frame, and what it returns becomes
\* the frame's f_trace
FrameCall ==
    /\ FrameBudget
    /\ Running(pending)
    /\ FreeFrames(pending) # {}
    /\ \E code \in pending.codes,
          locals \in {[name \in {Watch[1]} |-> v] : v \in pending.values} :
          LET f == CHOOSE x \in FreeFrames(pending) :
                      \A y \in FreeFrames(pending) : x <= y
              p == [pending EXCEPT
                       !.stack = Append(@, f),
                       !.frames[f] = [code |-> code, back |-> Top(pending),
                                      line |-> DefLine(code), status |-> "running",
                                      f_trace |-> FALSE, seen |-> EmptyDict]]
              r == trace(p, f, "call", DefLine(code), locals)
          IN /\ pending' = [p EXCEPT !.frames[f].f_trace = r.returned # "None",
                                     !.frames[f].status = StatusAfter(r.returned, "call"),
                                     !.frames[f].seen = SeenAfter(r, @, locals)]
             /\ frame_locals' = [frame_locals EXCEPT ![f] = locals]
             /\ Traced(r, f, "call", DefLine(code), locals)
    /\ lastOp' = "call"
    /\ UNCHANGED FrameRest

\* the running frame reaches its next line: its f_trace, if set, gets the
\* event
FrameLine ==
    /\ FrameBudget
    /\ LET f == Top(pending)
       IN /\ pending.frames[f].f_trace
          /\ LET line_no == pending.frames[f].line + 1
                 r == trace(pending, f, "line", line_no, frame_locals[f])
             IN /\ Traced(r, f, "line", line_no, frame_locals[f])
                /\ pending' = [pending EXCEPT
                                  !.frames[f].line = line_no,
                                  !.frames[f].status = "running",
                                  !.frames[f].seen = SeenAfter(r, @, frame_locals[f])]
    /\ lastOp' = "line"
    /\ UNCHANGED <<frame_locals, FrameRest>>

\* the statement the running frame is at binds a watched name
FrameAssign ==
    /\ FrameBudget
    /\ Running(pending)
    /\ \E n \in DOMAIN Watch, v \in pending.values :
          frame_locals' = [frame_locals EXCEPT ![Top(pending)] =
                              DictSet(@, Watch[n], v)]
    /\ lastOp' = "assign"
    /\ NotTraced
    /\ UNCHANGED <<pending, FrameRest>>

\* the running function returns, or the running generator yields or
\* returns: its f_trace, if set, gets a return event at the line it is at
FrameReturn ==
    /\ FrameBudget
    /\ Running(pending)
    /\ Len(pending.stack) > 1
    /\ LET f == Top(pending)
           fr == pending.frames[f]
       IN /\ \E yields \in IF fr.code = "gen" THEN BOOLEAN ELSE {FALSE} :
                /\ pending' = [pending EXCEPT
                      !.stack = SubSeq(@, 1, Len(@) - 1),
                      !.frames[f] = IF yields
                                    THEN [fr EXCEPT !.status = "suspended", !.back = 0]
                                    ELSE [fr EXCEPT !.status = "dead", !.back = 0,
                                                    !.seen = EmptyDict]]
                /\ frame_locals' = IF yields THEN frame_locals
                                   ELSE [frame_locals EXCEPT ![f] = EmptyDict]
          /\ IF fr.f_trace
             THEN Traced(trace(pending, f, "return", fr.line, frame_locals[f]),
                         f, "return", fr.line, frame_locals[f])
             ELSE NotTraced
    /\ lastOp' = "return"
    /\ UNCHANGED FrameRest

\* a suspended generator is resumed by the running frame: the hook gets a
\* call event of the generator's frame, at the line of its yield
FrameResume ==
    /\ FrameBudget
    /\ Running(pending)
    /\ \E f \in FrameIds :
          /\ pending.frames[f].status = "suspended"
          /\ LET p == [pending EXCEPT
                          !.stack = Append(@, f),
                          !.frames[f].back = Top(pending),
                          !.frames[f].status = "running"]
                 r == trace(p, f, "call", p.frames[f].line, frame_locals[f])
             IN /\ pending' = [p EXCEPT !.frames[f].f_trace = r.returned # "None",
                                        !.frames[f].status = StatusAfter(r.returned, "call"),
                                        !.frames[f].seen = SeenAfter(r, @, frame_locals[f])]
                /\ Traced(r, f, "call", p.frames[f].line, frame_locals[f])
    /\ lastOp' = "resume"
    /\ UNCHANGED <<frame_locals, FrameRest>>

NextFrames ==
    \/ FrameCall
    \/ FrameLine
    \/ FrameAssign
    \/ FrameReturn
    \/ FrameResume

SpecFrames == InitFrames /\ [][NextFrames]_vars
SpecScope == InitScope /\ [][NextFrames]_vars

\* ---- C31 ---------------------------------------------------------------
\* the mapping the folded list holds as of record k: the one of the last
\* snapshot up to record k that has a mapping
SnapshotAsOf(folded, k) ==
    LET held == {j \in 1..(k + 1) : ~IsNone(folded[j].variables)}
    IN IF held = {} THEN None
       ELSE folded[CHOOSE j \in held : \A i \in held : i <= j].variables

\* C31: after each in-scope line event of an activation, for every watched
\* name bound in that activation, the folded value of the name's identifier
\* as of the record before the event's record is the classification of the
\* value the name has in that activation, also when another activation of
\* the same function was traced in between.
C31_FoldTracksBindings ==
    [][(/\ nOps' = nOps + 1
        /\ ~IsNone(traceLog'))
        => LET t == Get(traceLog')
               snap == SnapshotAsOf(Fold(changes', color_mapping'), t.current - 1)
           IN (t.event = "line" /\ t.returned # "None" /\ t.current > 1)
                 => \A name \in DOMAIN t.locals :
                       LET key == identifier_to_string(<<TracerPrefix, name>>)
                       IN /\ ~IsNone(snap)
                          /\ key \in DOMAIN Get(snap)
                          /\ Get(snap)[key] =
                                process_variable_state(TracerHeap, color_mapping',
                                    key, t.locals[name], {}, 1)]_vars

\* the same for a program in which a single activation is traced
C31_SingleActivation ==
    [][(/\ nOps' = nOps + 1
        /\ ~IsNone(traceLog')
        /\ \A f \in FrameIds \ {1} : ~pending'.frames[f].f_trace)
        => LET t == Get(traceLog')
               snap == SnapshotAsOf(Fold(changes', color_mapping'), t.current - 1)
           IN (t.event = "line" /\ t.returned # "None" /\ t.current > 1)
                 => \A name \in DOMAIN t.locals :
                       LET key == identifier_to_string(<<TracerPrefix, name>>)
                       IN /\ ~IsNone(snap)
                          /\ key \in DOMAIN Get(snap)
                          /\ Get(snap)[key] =
                                process_variable_state(TracerHeap, color_mapping',
                                    key, t.locals[name], {}, 1)]_vars

\* ---- C32 ---------------------------------------------------------------
\* the binding of name is new to the activation, or its representation
\* differs from the one the activation had at its previous event
ChangedSince(seen, locals, name) ==
    \/ name \notin DOMAIN seen
    \/ seen[name] # value_repr(locals[name])

\* the names whose identifier trace put into a record's diff, or whose
\* entry there it replaced
DiffWritten(before, after) ==
    {name \in Range(Watch) :
        LET key == identifier_to_string(<<TracerPrefix, name>>)
        IN \E k \in DOMAIN after :
              /\ ~IsNone(after[k].variables)
              /\ key \in DOMAIN Get(after[k].variables)
              /\ \/ k \notin DOMAIN before
                 \/ IsNone(before[k].variables)
                 \/ key \notin DOMAIN Get(before[k].variables)
                 \/ Get(before[k].variables)[key] # Get(after[k].variables)[key]}

\* C32: a binding gets into a record's diff only at an event at which it is
\* new to the activation or its representation differs from the one the
\* activation had at its previous event; a binding unchanged since the
\* previous event of the same activation is written to no record.
C32_OnlyChangedWritten ==
    [][(nOps' = nOps + 1 /\ ~IsNone(traceLog'))
        => LET t == Get(traceLog')
               seen == pending.frames[t.frame].seen
           IN \A name \in {w[1] : w \in t.wrote} \cup DiffWritten(changes, changes') :
                 /\ name \in DOMAIN t.locals
                 /\ ChangedSince(seen, t.locals, name)]_vars

\* the same for the activations of plain functions and of the module
C32_PlainActivations ==
    [][(/\ nOps' = nOps + 1
        /\ ~IsNone(traceLog')
        /\ pending'.frames[Get(traceLog').frame].code # "gen")
        => LET t == Get(traceLog')
               seen == pending.frames[t.frame].seen
           IN \A name \in {w[1] : w \in t.wrote} \cup DiffWritten(changes, changes') :
                 /\ name \in DOMAIN t.locals
                 /\ ChangedSince(seen, t.locals, name)]_vars

\* ---- C33 ---------------------------------------------------------------
\* the identities of the values an object holds, in the order they are
\* classified: the elements of a list, key and value of each item of a dict
Held(o) ==
    IF o.cls = "list" THEN o.items
    ELSE [i \in 1..(2 * Len(o.pairs)) |->
            o.pairs[(i + 1) \div 2][IF i % 2 = 1 THEN 1 ELSE 2]]

\* in the classification node of a value nested below the values ancestors:
\* the node is a reference exactly when its identity is an ancestor's, and
\* otherwise it carries its type tag and one such node for every value its
\* object holds
RECURSIVE ReferenceIffAncestor(_, _, _)
ReferenceIffAncestor(h, node, ancestors) ==
    /\ "raised" \notin DOMAIN node
    /\ node.type = REFERENCE_TYPE_STRING <=> node.python_id \in ancestors
    /\ node.python_id \notin ancestors
          => LET o == h[node.python_id]
                 c == Children(node)
             IN /\ node.type = _search_type_string(o.cls, Accepted(o.cls))
                /\ Len(c) = Len(Held(o))
                /\ \A i \in DOMAIN c :
                      /\ c[i].python_id = Held(o)[i]
                      /\ ReferenceIffAncestor(h, c[i], ancestors \cup {node.python_id})

RECURSIVE Caller(_, _, _)
Caller(p, f, k) ==
    IF f = 0 \/ k = 0 THEN f ELSE Caller(p, p.frames[f].back, k - 1)

\* the frame's code is a registered target, or the frame entered the with
\* block
Registered(p, f) ==
    \/ p.frames[f].code \in {"f", "gen"}
    \/ f \in p.target_frames

\* C34: an event is in scope if and only if the frame's code is a
\* registered target, or the frame was entered through the with block, or
\* (depth > 1) the frame is not tracer-internal and a frame within depth-1
\* caller links above it is such a target; for every other event trace
\* returns None and leaves the depth counter, the records, the color mapping
\* and the cached snapshots of the frames as they were.
C34_ScopeDecision ==
    [][(nOps' = nOps + 1 /\ ~IsNone(traceLog'))
        => LET t == Get(traceLog')
               p == IF t.event = "call" THEN pending' ELSE pending
               in_scope ==
                   \/ Registered(p, t.frame)
                   \/ /\ p.depth > 1
                      /\ p.frames[t.frame].code # "sight"
                      /\ \E k \in 1..(p.depth - 1) :
                            /\ Caller(p, t.frame, k) # 0
                            /\ Registered(p, Caller(p, t.frame, k))
           IN /\ t.returned # "None" <=> in_scope
              /\ ~in_scope
                    => /\ t.returned = "None"
                       /\ thr_depth' = thr_depth
                       /\ changes' = changes
                       /\ color_mapping' = color_mapping
                       /\ frame_to_local_reprs' = frame_to_local_reprs]_vars

\* with depth 3, an undecorated function called from the with block and the
\* undecorated function it called were traced, and the call event of a third
\* one below them was out of scope
C34_Witness ==
    /\ ~IsNone(traceLog)
    /\ pending.depth = 3
    /\ Len(pending.stack) = 4
    /\ \A f \in {2, 3} : pending.frames[f].code = "g" /\ pending.frames[f].f_trace
    /\ pending.frames[4].code = "g"
    /\ Get(traceLog).frame = 4
    /\ Get(traceLog).returned = "None"
    /\ Len(changes) = 5

\* ---- C35 ---------------------------------------------------------------
\* C35: the submitted program is executed only by a controller whose init
\* phase completed: a main on a controller whose init was never called, or
\* failed, executes nothing of it, and in particular nothing before
\* _collect_builtins has put the restricted table into the user globals.
C35_RunsOnlyAfterInit ==
    ctl.executed_in # {}
        => /\ ctl.init = "ok"
           /\ "_collect_builtins" \in Range(ctl.init_layers)

\* once init has completed, the program runs with every init layer done
C35_InitCompletes ==
    ctl.init = "ok" => ctl.init_layers = _make_init_layers

\* ========================================================================
\* SpecTypeTag: Recorder._search_type_string (recorder.py:358-370) over the
\* classes of Python values and the answers of the graph validators
\* ========================================================================
TagClasses ==
    {"int", "float", "bool", "str", "NoneType", "list", "tuple", "deque",
     "set", "frozenset", "range", "bytes", "Counter", "dict", "function"}
Validators == {_GRAPH_OBJECT_MAPPING[i][1] : i \in DOMAIN _GRAPH_OBJECT_MAPPING}

InitTypeTag ==
    /\ RecIdle /\ ClsIdle /\ SbxIdle /\ CtlIdle /\ ThrIdle
    /\ fn_input \in {Some([cls |-> c, accepted |-> a]) :
                        c \in TagClasses, a \in SUBSET Validators}
    /\ fn_output = None

SearchTypeString ==
    /\ fn_output = None
    /\ fn_output' = Some(_search_type_string(Get(fn_input).cls,
                                             Get(fn_input).accepted))
    /\ UNCHANGED <<fn_input, thrVars, recVars, clsVars, sbxVars, ctlVars>>

NextTypeTag == SearchTypeString

SpecTypeTag == InitTypeTag /\ [][NextTypeTag]_vars

\* ---- C36 ---------------------------------------------------------------
\* the tags in the order of priority, each with what makes a value match it:
\* a validator of the graph library, or a type the value is an instance of
TagPriority ==
    << <<"is_node", "Node">>, <<"is_edge", "Edge">>, <<"is_data_edge", "DataEdge">>,
       <<"is_multi_edge", "MultiEdge">>, <<"is_data_multi_edge", "DataMultiEdge">>,
       <<"Number", "Number">>, <<"str", "String">>, <<"NoneType", "None">>,
       <<"List", "List">>, <<"Tuple", "Tuple">>, <<"Deque", "Deque">>,
       <<"Set", "Set">>, <<"Sequence", "Sequence">>,
       <<"Counter", "Counter">>, <<"Mapping", "Mapping">>,
       <<"object", "Object">> >>

MatchesTag(v, i) ==
    IF i <= 5 THEN TagPriority[i][1] \in v.accepted
    ELSE IsInstance(v.cls, TagPriority[i][1])

MaxMemMB == 100
\* _default_vars[EXEC_MEM_OUT] (variables.py:200)
EXEC_MEM_OUT_default == 100
\* int(10e6): the float literal 10e6 is 10 * 10^6, truncated to an integer
MB_FACTOR == 10 * (10 ^ 6)
Platforms == {"Linux", "Darwin", "Windows"}

\* self._options = {**default_settings.vars, **(options or {}), **kwargs}
MergedOptions(options) ==
    [k \in {"EXEC_MEM_OUT"} \cup DOMAIN options |->
        IF k \in DOMAIN options THEN options[k] ELSE EXEC_MEM_OUT_default]

\* self._re_mem_size = self._options.get(EXEC_MEM_OUT) * int(10e6)
re_mem_size(options) == MergedOptions(options)["EXEC_MEM_OUT"] * MB_FACTOR

InitMemLimit ==
    /\ RecIdle /\ ClsIdle /\ SbxIdle /\ CtlIdle /\ ThrIdle
    /\ fn_input \in
          {Some([options |-> o, platform |-> p]) :
              o \in {<<>>} \cup {[k \in {"EXEC_MEM_OUT"} |-> mb] : mb \in 0..MaxMemMB},
              p \in Platforms}
    /\ fn_output = None

\* Controller.__init__
ControllerConstruct ==
    /\ fn_output = None
    /\ fn_output' = Some([re_mem_size |-> re_mem_size(Get(fn_input).options),
                          entered |-> FALSE,
                          rlimit_as |-> None])
    /\ UNCHANGED <<fn_input, thrVars, recVars, clsVars, sbxVars, ctlVars>>

\* _ResourceRestrict.enter: on Linux the soft limit of RLIMIT_AS becomes
\* re_mem_size; elsewhere nothing is set
ResourceRestrictEnter ==
    /\ ~IsNone(fn_output)
    /\ ~Get(fn_output).entered
    /\ fn_output' =
          Some([Get(fn_output) EXCEPT
                  !.entered = TRUE,
                  !.rlimit_as = IF Get(fn_input).platform = "Linux"
                                THEN Some(Get(fn_output).re_mem_size)
                                ELSE None])
    /\ UNCHANGED <<fn_input, thrVars, recVars, clsVars, sbxVars, ctlVars>>

NextMemLimit == ControllerConstruct \/ ResourceRestrictEnter

SpecMemLimit == InitMemLimit /\ [][NextMemLimit]_vars

\* ---- C37 ---------------------------------------------------------------
\* the memory limit in megabytes the controller was configured with
ConfiguredMB ==
    LET o == Get(fn_input).options
    IN IF "EXEC_MEM_OUT" \in DOMAIN o THEN o["EXEC_MEM_OUT"] ELSE EXEC_MEM_OUT_default

\* C37: the address-space ceiling in bytes is the configured memory limit in
\* megabytes times 10^6; the default of 100 MB gives 100,000,000 bytes.
C37_CeilingIsMegabytes ==
    (~IsNone(fn_output) /\ ~IsNone(Get(fn_output).rlimit_as)) =>
        /\ Get(Get(fn_output).rlimit_as) = ConfiguredMB * (10 ^ 6)
        /\ Get(fn_input).options = <<>> =>
              Get(Get(fn_output).rlimit_as) = 100000000

\* what the code computes: ten times as many bytes
C37_CeilingIsTenfold ==
    (~IsNone(fn_output) /\ ~IsNone(Get(fn_output).rlimit_as)) =>
        Get(Get(fn_output).rlimit_as) = ConfiguredMB * 10 * (10 ^ 6)

\* ========================================================================
\* SpecGenerator: a generator function and the generator_wrapper that
\* Tracer._wrap_function puts around it (sight.py:302-334), driven by the
\* same consumer; values are kept as strings, "None" is Python's None
\* ========================================================================
MaxYields == 2
MaxGenOps == 3
GenExceptions == {"ValueError", "KeyboardInterrupt"}
\* the classes `except Exception` catches
IsException(e) == e = "ValueError"
YieldValue(k) == IF k = 1 THEN "y1" ELSE IF k = 2 THEN "y2" ELSE "y3"

\* the generator functions: the body yields n values, each yield inside a
\* try that catches the exceptions of catches[k], and returns ret
GenPrograms ==
    UNION {[n : {n}, catches : [1..n -> SUBSET GenExceptions],
            ret : {"None", "7"}] : n \in 0..MaxYields}

NewGenerator == [pc |-> 0, received |-> <<>>]
Finished(prog, g) == g.pc = prog.n + 1

Outcome(kind, value) == [kind |-> kind, value |-> value]

\* the body runs from after yield g.pc to the next yield or to its return
Advance(prog, g, received) ==
    IF g.pc < prog.n
    THEN [gen |-> [pc |-> g.pc + 1, received |-> received],
          outcome |-> Outcome("yield", YieldValue(g.pc + 1))]
    ELSE [gen |-> [pc |-> prog.n + 1, received |-> received],
          outcome |-> Outcome("stop", prog.ret)]

\* gen.send(x) and gen.throw(x) of a Python generator
Resume(prog, g, method, x) ==
    IF Finished(prog, g)
    THEN [gen |-> g,
          outcome |-> IF method = "send" THEN Outcome("stop", "None")
                      ELSE Outcome("raise", x)]
    ELSE IF g.pc = 0
    THEN IF method = "throw"
         THEN [gen |-> [g EXCEPT !.pc = prog.n + 1], outcome |-> Outcome("raise", x)]
         ELSE IF x # "None"
         THEN [gen |-> g, outcome |-> Outcome("raise", "TypeError")]
         ELSE Advance(prog, g, g.received)
    ELSE IF method = "send"
    THEN Advance(prog, g, Append(g.received, <<"send", x>>))
    ELSE IF x \in prog.catches[g.pc]
    THEN Advance(prog, g, Append(g.received, <<"throw", x>>))
    ELSE [gen |-> [g EXCEPT !.pc = prog.n + 1], outcome |-> Outcome("raise", x)]

\* one turn of the loop of generator_wrapper: `with self: outgoing =
\* method(incoming)`, `except StopIteration: return`, then `yield outgoing`
WrapperLoop(prog, w, method, incoming) ==
    LET r == Resume(prog, w.gen, method, incoming)
    IN IF r.outcome.kind = "yield"
       THEN [wrapper |-> [status |-> "suspended", gen |-> r.gen],
             outcome |-> r.outcome]
       ELSE IF r.outcome.kind = "stop"
       THEN [wrapper |-> [status |-> "finished", gen |-> r.gen],
             outcome |-> Outcome("stop", "None")]
       ELSE [wrapper |-> [status |-> "finished", gen |-> r.gen],
             outcome |-> r.outcome]

\* send and throw of the generator that generator_wrapper is
generator_wrapper(prog, w, method, x) ==
    IF w.status = "finished"
    THEN [wrapper |-> w,
          outcome |-> IF method = "send" THEN Outcome("stop", "None")
                      ELSE Outcome("raise", x)]
    ELSE IF w.status = "created"
    THEN IF method = "throw"
         THEN [wrapper |-> [w EXCEPT !.status = "finished"],
               outcome |-> Outcome("raise", x)]
         ELSE IF x # "None"
         THEN [wrapper |-> w, outcome |-> Outcome("raise", "TypeError")]
         ELSE WrapperLoop(prog, w, "send", "None")
    ELSE IF method = "send"
    THEN WrapperLoop(prog, w, "send", x)
    ELSE IF IsException(x)
    THEN WrapperLoop(prog, w, "throw", x)
    ELSE [wrapper |-> [w EXCEPT !.status = "finished"],
          outcome |-> Outcome("raise", x)]

InitGenerator ==
    /\ RecIdle /\ ClsIdle /\ SbxIdle /\ CtlIdle /\ ThrIdle
    /\ fn_input \in {Some(prog) : prog \in GenPrograms}
    /\ fn_output = Some([plain |-> NewGenerator,
                         wrapper |-> [status |-> "created", gen |-> NewGenerator],
                         plain_out |-> <<>>,
                         traced_out |-> <<>>])

\* the consumer does the same operation on both generators
Consumed(method, x) ==
    LET prog == Get(fn_input)
        s == Get(fn_output)
        p == Resume(prog, s.plain, method, x)
        t == generator_wrapper(prog, s.wrapper, method, x)
    IN Some([plain |-> p.gen,
             wrapper |-> t.wrapper,
             plain_out |-> Append(s.plain_out, p.outcome),
             traced_out |-> Append(s.traced_out, t.outcome)])

GenRest == UNCHANGED <<fn_input, thrVars, recVars, clsVars, sbxVars, ctlVars>>

\* next(gen)
ConsumerNext ==
    /\ Len(Get(fn_output).plain_out) < MaxGenOps
    /\ fn_output' = Consumed("send", "None")
    /\ GenRest

\* gen.send("s")
ConsumerSend ==
    /\ Len(Get(fn_output).plain_out) < MaxGenOps
    /\ fn_output' = Consumed("send", "s")
    /\ GenRest

\* gen.throw(e)
ConsumerThrow ==
    /\ Len(Get(fn_output).plain_out) < MaxGenOps
    /\ \E e \in GenExceptions : fn_output' = Consumed("throw", e)
    /\ GenRest

NextGenerator == ConsumerNext \/ ConsumerSend \/ ConsumerThrow

SpecGenerator == InitGenerator /\ [][NextGenerator]_vars

\* ---- C38 ---------------------------------------------------------------
\* C38: the decorated generator gives its consumer what the undecorated one
\* gives: the same yields in the same order and the same return value at the
\* end, and what is sent or thrown in reaches the original generator.
C38_SameForConsumer ==
    LET s == Get(fn_output)
    IN /\ s.traced_out = s.plain_out
       /\ s.wrapper.gen.received = s.plain.received

\* the consumer threw no exception that `except Exception` lets through:
\* none was caught by the undecorated generator and none came back
NoBaseExceptionThrown ==
    LET s == Get(fn_output)
    IN /\ \A i \in DOMAIN s.plain.received :
             s.plain.received[i] # <<"throw", "KeyboardInterrupt">>
       /\ \A i \in DOMAIN s.plain_out :
             s.plain_out[i] # Outcome("raise", "KeyboardInterrupt")

\* what the wrapper keeps: when only subclasses of Exception are thrown in,
\* the two differ in nothing but the return value
C38_SameButReturnValue ==
    LET s == Get(fn_output)
        prog == Get(fn_input)
    IN NoBaseExceptionThrown =>
          /\ s.wrapper.gen.received = s.plain.received
          /\ Len(s.traced_out) = Len(s.plain_out)
          /\ \A i \in DOMAIN s.plain_out :
                \/ s.traced_out[i] = s.plain_out[i]
                \/ /\ s.plain_out[i] = Outcome("stop", prog.ret)
                   /\ s.traced_out[i] = Outcome("stop", "None")

\* ---- C40 ---------------------------------------------------------------
\* C40: with ALLOW_OTHER_ORIGIN false a request whose origin is not listed in
\* ACCEPTED_ORIGINS gets the error "The ORIGIN ... is not accepted" and no
\* handler is called; with ALLOW_OTHER_ORIGIN true every request is
\* dispatched.
C40_OriginCheck ==
    ~IsNone(fn_output) =>
        LET settings == Get(fn_input).settings
            origin == Get(fn_input).environ.HTTP_ORIGIN
            response == Get(fn_output)
        IN /\ (~settings.ALLOW_OTHER_ORIGIN
                  /\ origin \notin Range(settings.ACCEPTED_ORIGINS)) =>
                 /\ response.handler = "not called"
                 /\ response.errors =
                       Some("The ORIGIN, " \o origin \o ", is not accepted.")
           /\ settings.ALLOW_OTHER_ORIGIN => response.handler # "not called"

\* what the code decides on: the request is refused exactly when
\* ACCEPTED_ORIGINS is empty, whatever ALLOW_OTHER_ORIGIN says
C40_RefusedIffNoOriginListed ==
    ~IsNone(fn_output) =>
        (Get(fn_output).handler = "not called"
            <=> Get(fn_input).settings.ACCEPTED_ORIGINS = <<>>)

\* ========================================================================
\* SpecExecute: ExecutorWSGIServer.execute (main_functions.py:152-198) step
\* by step, next to the subprocess it starts; the clock counts seconds
\* since Popen
\* ========================================================================
MaxTimeout == 3
MaxRuntime == 5
MaxClock == MaxTimeout + MaxRuntime

\* the subprocess: whether it ends on its own (a program that blocks does
\* not), after how many seconds, and what it has written to stdout by then
Subprocesses ==
    [ends : BOOLEAN, runtime : 1..MaxRuntime, stdout : {"", "not json", "[]"}]

InitExecute ==
    /\ RecIdle /\ ClsIdle /\ SbxIdle /\ CtlIdle /\ ThrIdle
    /\ fn_input \in {Some([EXEC_TIME_OUT |-> t, subprocess |-> p]) :
                        t \in 1..MaxTimeout, p \in Subprocesses}
    /\ fn_output = Some([pc |-> "start", proc |-> "none", clock |-> 0,
                         timed_out |-> FALSE, kill_sent |-> FALSE,
                         waited |-> 0, result |-> ""])

ExecRest == UNCHANGED <<fn_input, thrVars, recVars, clsVars, sbxVars, ctlVars>>
Blocked(pc) == pc \in {"communicate", "communicate_again"}

\* proc = subprocess.Popen(command, ...)
Popen ==
    /\ Get(fn_output).pc = "start"
    /\ fn_output' = Some([Get(fn_output) EXCEPT !.pc = "communicate",
                                                !.proc = "running"])
    /\ ExecRest

\* a second passes while execute is blocked in communicate; the subprocess
\* ends when its runtime is over, if it ends at all
Tick ==
    LET s == Get(fn_output)
        p == Get(fn_input).subprocess
    IN /\ Blocked(s.pc)
       /\ s.proc = "running"
       /\ s.pc = "communicate" => s.clock < Get(fn_input).EXEC_TIME_OUT
       /\ s.clock < MaxClock
       /\ fn_output' =
             Some([s EXCEPT
                     !.clock = @ + 1,
                     !.waited = IF s.pc = "communicate_again" THEN @ + 1 ELSE @,
                     !.proc = IF p.ends /\ s.clock + 1 >= p.runtime
                              THEN "exited" ELSE "running"])
       /\ ExecRest

\* proc.communicate(config_bytes, timeout=EXEC_TIME_OUT) returns
CommunicateReturns ==
    /\ Get(fn_output).pc = "communicate"
    /\ Get(fn_output).proc = "exited"
    /\ fn_output' = Some([Get(fn_output) EXCEPT !.pc = "check"])
    /\ ExecRest

\* proc.communicate(..., timeout=EXEC_TIME_OUT) raises TimeoutExpired and
\* the except clause starts: proc.communicate() with no timeout
TimeoutExpired ==
    /\ Get(fn_output).pc = "communicate"
    /\ Get(fn_output).proc = "running"
    /\ Get(fn_output).clock >= Get(fn_input).EXEC_TIME_OUT
    /\ fn_output' = Some([Get(fn_output) EXCEPT !.pc = "communicate_again",
                                                !.timed_out = TRUE])
    /\ ExecRest

\* the rest of the except clause: proc.communicate() returns once the
\* subprocess has ended, then proc.kill(), then raise ExecutionError
CommunicateAgainReturns ==
    /\ Get(fn_output).pc = "communicate_again"
    /\ Get(fn_output).proc = "exited"
    /\ fn_output' = Some([Get(fn_output) EXCEPT !.pc = "raised",
                                                !.kill_sent = TRUE,
                                                !.result = "ExecutionError"])
    /\ ExecRest

\* after the try: `if not stdout` and json.loads(stdout)
CheckResult ==
    LET stdout == Get(fn_input).subprocess.stdout
    IN /\ Get(fn_output).pc = "check"
       /\ fn_output' =
             Some([Get(fn_output) EXCEPT
                     !.pc = IF stdout = "[]" THEN "returned" ELSE "raised",
                     !.result = IF stdout = "[]" THEN "res" ELSE "ExecutionError"])
       /\ ExecRest

NextExecute ==
    \/ Popen \/ Tick \/ CommunicateReturns \/ TimeoutExpired
    \/ CommunicateAgainReturns \/ CheckResult

SpecExecute == InitExecute /\ [][NextExecute]_vars

\* the server's own steps are taken when they can be and time passes; that
\* the subprocess ends is not a step of the server
SpecExecuteFair ==
    /\ SpecExecute
    /\ WF_vars(Popen) /\ WF_vars(Tick) /\ WF_vars(CommunicateReturns)
    /\ WF_vars(TimeoutExpired) /\ WF_vars(CommunicateAgainReturns)
    /\ WF_vars(CheckResult)

\* ---- C39 ---------------------------------------------------------------
ExecuteEnded == Get(fn_output).pc \in {"returned", "raised"}

\* C39: execute always terminates; a subprocess that has not finished
\* within EXEC_TIME_OUT seconds is killed and execute raises ExecutionError
\* without waiting for the subprocess to end on its own.
C39_ExecuteTerminates ==
    /\ <>ExecuteEnded
    /\ [](Get(fn_output).timed_out =>
             /\ Get(fn_output).waited = 0
             /\ Get(fn_output).proc = "exited" => Get(fn_output).kill_sent)

\* the first half alone: a subprocess that blocks keeps execute in its
\* second communicate for ever
C39_EventuallyEnds == <>ExecuteEnded

\* what the code does after a timeout: it raises only once the subprocess
\* has ended on its own, and sends the kill after that
C39_WaitsForSubprocess ==
    (Get(fn_output).timed_out /\ ExecuteEnded) =>
        /\ Get(fn_output).result = "ExecutionError"
        /\ Get(fn_input).subprocess.ends
        /\ Get(fn_output).clock >= Get(fn_input).subprocess.runtime

====
